---- MODULE Spec2Model ----
(***************************************************************************)
(* dbbench: the job scheduler (invocation sources, job runners, workers,   *)
(* the closing coordinator of the shared results channel), the result      *)
(* processor with its statistics, and the orchestrator runTest.            *)
(*                                                                         *)
(* Goroutines are processes with a program counter; an unbuffered channel  *)
(* operation is one step taken jointly by the sender and the receiver.     *)
(* log.Fatalf ends the process: it sets fatal, after which no step is      *)
(* taken.  Time is a discrete clock, now, counted from the moment runTest  *)
(* creates its context; a timer or deadline is ready once now has reached  *)
(* it.                                                                     *)
(***************************************************************************)
EXTENDS Integers, Sequences, FiniteSets, Bags, TLC

\* ------------------------------------------------------------ bounds
\* The clock stops at MaxTime.
MaxTime == 1
\* A source with count = 0 hands out at most MaxEmit invocations.
MaxEmit == 2
\* The result processor is fed at most MaxFeed results (SpecProc).
MaxFeed == 2
\* An invocation handed to Invoke has at most MaxQueries queries (SpecInvoke).
MaxQueries == 2
\* An ErrorCounts has at most MaxErrs errors added (SpecErr).
MaxErrs == 3
\* The user sends at most MaxSignals SIGINTs (SpecSignal).
MaxSignals == 2

\* mergeJobResultChans: at most MaxInputs input channels, at most MaxItems
\* JobResults sent on each.
MaxInputs == 2
MaxItems == 3

\* StreamingStats alone: at most MaxAdds calls of Add, with values up to
\* MaxValue.
MaxAdds == 4
MaxValue == 3
MaxLate == 2

\* ------------------------------------------------------------ values
None == [none |-> TRUE]
NoErr == [noerr |-> TRUE]
NoArgs == [nil |-> TRUE]
NoLog == [nolog |-> TRUE]
EmptyMap == <<>>

RECURSIVE SumOver(_, _)
SumOver(f, S) ==
    IF S = {} THEN 0
    ELSE LET x == CHOOSE y \in S : TRUE IN f[x] + SumOver(f, S \ {x})

Min2(a, b) == IF a < b THEN a ELSE b

\* ------------------------------------------------------------ database
\* An error a driver returns: its code, and whether the flavor's parser
\* recognises the error's type.
DbError(code, recognised) == [code |-> code, recognised |-> recognised]

\* sqlDatabaseFlavor.ErrorCode with mySQLErrorCodeParser / postgresErrorCodeParser:
\* the code of a driver error, a meta-error for anything else.
ErrorCode(err) ==
    IF err.recognised THEN [code |-> err.code, e |-> NoErr]
    ELSE [code |-> "", e |-> [meta |-> "unrecognized"]]

\* What one Database.RunQuery call returns, and how long it took.
Outcome(rows, err, dur) == [rows |-> rows, err |-> err, dur |-> dur]

\* ------------------------------------------------------------ error.go
\* An Add that notes the query without counting its further errors.
epqAddOnce(epq, query) ==
    IF query \in DOMAIN epq THEN epq ELSE epq @@ (query :> 1)

\* errorsPerQuery.Add
epqAdd(epq, query) ==
    IF query \in DOMAIN epq THEN [epq EXCEPT ![query] = @ + 1]
    ELSE epq @@ (query :> 1)

\* errorsPerQuery.Total
epqTotal(epq) == SumOver(epq, DOMAIN epq)

\* ErrorCounts.Add: [e: the meta-error or NoErr, ec: the map afterwards]
ecAdd(ec, err, query) ==
    LET r == ErrorCode(err) IN
    IF r.e # NoErr THEN [e |-> r.e, ec |-> ec]
    ELSE LET ec1 == IF r.code \in DOMAIN ec THEN ec
                    ELSE ec @@ (r.code :> [Error |-> err, counts |-> EmptyMap])
         IN [e |-> NoErr,
             ec |-> [ec1 EXCEPT ![r.code].counts = epqAdd(@, query)]]

\* ErrorCounts.TotalErrors
TotalErrors(ec) ==
    SumOver([c \in DOMAIN ec |-> epqTotal(ec[c].counts)], DOMAIN ec)

\* ErrorCounts.TotalAccepted
TotalAccepted(ec, errors) ==
    SumOver([c \in DOMAIN ec |-> epqTotal(ec[c].counts)], DOMAIN ec \cap errors)

\* A subset that is the whole of ec.
UnhandledErrorsAll(ec, errors) == ec

\* ErrorCounts.UnhandledErrors
UnhandledErrors(ec, errors) ==
    [c \in (DOMAIN ec) \ errors |-> ec[c]]

\* The three calls on ec with the accepted set errors: what they return and
\* the receiver afterwards (none of them assigns to ec or to its values).
Split(ec, errors) ==
    [ec |-> ec,
     totalErrors |-> TotalErrors(ec),
     totalAccepted |-> TotalAccepted(ec, errors),
     unhandled |-> UnhandledErrors(ec, errors)]

\* ------------------------------------------------------------ job.go: Invoke
\* A loop body that counts no error: a failed query leaves errorCounts as
\* it was.
InvokeStepNoRecord(acc, qi, out) ==
    LET a1 == [acc EXCEPT !.elapsed = @ + out.dur,
                          !.attempted = Append(@, qi.query)]
    IN IF out.err # NoErr THEN a1
       ELSE [a1 EXCEPT !.rowsAffected = @ + out.rows]

\* A loop body that forgets the rows counted so far when a query fails.
InvokeStepZeroRows(acc, qi, out) ==
    LET a1 == [acc EXCEPT !.elapsed = @ + out.dur,
                          !.attempted = Append(@, qi.query)]
    IN IF out.err # NoErr
       THEN LET r == ecAdd(a1.errorCounts, out.err, qi.query) IN
            IF r.e # NoErr THEN [a1 EXCEPT !.fatal = TRUE]
            ELSE [a1 EXCEPT !.errorCounts = r.ec, !.rowsAffected = 0]
       ELSE [a1 EXCEPT !.rowsAffected = @ + out.rows]

\* The loop body of jobInvocation.Invoke for one query and what RunQuery
\* returned for it. acc: the locals elapsed, rowsAffected, errorCounts; the
\* queries handed to RunQuery so far (attempted); fatal once log.Fatalf ran.
InvokeStep(acc, qi, out) ==
    LET a1 == [acc EXCEPT !.elapsed = @ + out.dur,
                          !.attempted = Append(@, qi.query)]
    IN IF out.err # NoErr
       THEN LET r == ecAdd(a1.errorCounts, out.err, qi.query) IN
            IF r.e # NoErr THEN [a1 EXCEPT !.fatal = TRUE]
            ELSE [a1 EXCEPT !.errorCounts = r.ec]
       ELSE [a1 EXCEPT !.rowsAffected = @ + out.rows]

InvokeStart ==
    [elapsed |-> 0, rowsAffected |-> 0, errorCounts |-> EmptyMap,
     attempted |-> <<>>, fatal |-> FALSE]

\* The JobResult Invoke returns from its locals.
InvokeResult(ji, acc, start) ==
    [Name |-> ji.name, Start |-> start, Elapsed |-> acc.elapsed,
     Queries |-> Len(ji.queries), RowsAffected |-> acc.rowsAffected,
     Errors |-> acc.errorCounts]

RECURSIVE InvokeLoop(_, _, _, _)
InvokeLoop(ji, outs, i, acc) ==
    IF i > Len(ji.queries) \/ acc.fatal THEN acc
    ELSE InvokeLoop(ji, outs, i + 1, InvokeStep(acc, ji.queries[i], outs[i]))

\* jobInvocation.Invoke, given what RunQuery returns for each query:
\* [fatal, result]
Invoke(ji, outs, start) ==
    LET acc == InvokeLoop(ji, outs, 1, InvokeStart) IN
    [fatal |-> acc.fatal, result |-> InvokeResult(ji, acc, start)]

\* ------------------------------------------------------------ statistics
\* The float64 fields of StreamingStats are modelled as exact rationals
\* <<numerator, denominator>> in lowest terms, denominator > 0.
Abs(x) == IF x < 0 THEN -x ELSE x

RECURSIVE GCD(_, _)
GCD(a, b) == IF b = 0 THEN a ELSE GCD(b, a % b)

Rat(n, d) ==
    LET g == GCD(Abs(n), Abs(d))
        s == IF d < 0 THEN -1 ELSE 1
    IN <<(s * n) \div g, (s * d) \div g>>

RInt(x) == <<x, 1>>
RAdd(p, q) == Rat(p[1] * q[2] + q[1] * p[2], p[2] * q[2])
RSub(p, q) == Rat(p[1] * q[2] - q[1] * p[2], p[2] * q[2])
RMul(p, q) == Rat(p[1] * q[1], p[2] * q[2])
RDivInt(p, k) == Rat(p[1], p[2] * k)

\* StreamingStats zero value
ssZero == [count |-> 0, mean |-> RInt(0), sumSquareDeviation |-> RInt(0)]

\* An Add whose S_k uses the old mean twice: S_k = S_{k-1} + (x_k - M_{k-1})^2.
ssAddOldMean(ss, x) ==
    IF ss.count = 0
    THEN [ss EXCEPT !.mean = RInt(x), !.count = 1]
    ELSE [count |-> ss.count + 1,
          mean |-> RAdd(ss.mean, RDivInt(RSub(RInt(x), ss.mean), ss.count + 1)),
          sumSquareDeviation |->
              RAdd(ss.sumSquareDeviation,
                   RMul(RSub(RInt(x), ss.mean), RSub(RInt(x), ss.mean)))]

\* StreamingStats.Add (Welford)
ssAdd(ss, x) ==
    IF ss.count = 0
    THEN [ss EXCEPT !.mean = RInt(x), !.count = 1]
    ELSE LET oldMean == ss.mean
             newMean == RAdd(ss.mean, RDivInt(RSub(RInt(x), ss.mean), ss.count + 1))
         IN [count |-> ss.count + 1,
             mean |-> newMean,
             sumSquareDeviation |->
                 RAdd(ss.sumSquareDeviation,
                      RMul(RSub(RInt(x), oldMean), RSub(RInt(x), newMean)))]

\* StreamingStats.SampleVariance
SampleVariance(ss) ==
    IF ss.count > 1 THEN RDivInt(ss.sumSquareDeviation, ss.count - 1) ELSE RInt(0)

\* StreamingHistogram: a bag of bucket indices. Bucket of v: the position
\* of its highest set bit plus one, 0 for v = 0.
RECURSIVE BitLen(_)
BitLen(v) == IF v = 0 THEN 0 ELSE 1 + BitLen(v \div 2)

histZero == EmptyBag
histAdd(h, v) == h (+) SetToBag({BitLen(v)})
histTotal(h) == BagCardinality(h)

\* jobStats / JobStats zero values
jobStatsZero ==
    [Transactions |-> ssZero, Errors |-> ssZero, Queries |-> 0,
     RowsAffected |-> 0, TotalErrors |-> 0, AcceptedErrors |-> 0,
     Start |-> 0, Stop |-> 0]

JobStatsZero ==
    [jobStats |-> jobStatsZero, Transactions |-> histZero, Errors |-> histZero]

\* An Update that counts rows and a transaction for a failed result too.
jobStatsUpdateAlways(js, accepted, jr) ==
    LET totalErrors == TotalErrors(jr.Errors)
        j1 == [js EXCEPT !.AcceptedErrors = @ + TotalAccepted(jr.Errors, accepted),
                         !.RowsAffected = @ + jr.RowsAffected,
                         !.Transactions = ssAdd(@, jr.Elapsed),
                         !.Queries = @ + jr.Queries]
    IN IF totalErrors > 0
       THEN [j1 EXCEPT !.TotalErrors = @ + totalErrors,
                       !.Errors = ssAdd(@, jr.Elapsed)]
       ELSE j1

\* (*jobStats).Update
jobStatsUpdate(js, accepted, jr) ==
    LET totalErrors == TotalErrors(jr.Errors)
        j1 == [js EXCEPT !.AcceptedErrors = @ + TotalAccepted(jr.Errors, accepted)]
        j2 == IF totalErrors > 0
              THEN [j1 EXCEPT !.TotalErrors = @ + totalErrors,
                              !.Errors = ssAdd(@, jr.Elapsed)]
              ELSE [j1 EXCEPT !.RowsAffected = @ + jr.RowsAffected,
                              !.Transactions = ssAdd(@, jr.Elapsed)]
        j3 == [j2 EXCEPT !.Queries = @ + jr.Queries]
        j4 == IF j3.Start = 0 \/ jr.Start < j3.Start
              THEN [j3 EXCEPT !.Start = jr.Start] ELSE j3
    IN IF j4.Stop = 0 \/ jr.Start + jr.Elapsed > j4.Stop
       THEN [j4 EXCEPT !.Stop = jr.Start + jr.Elapsed] ELSE j4

\* An Update that puts every result into the transactions histogram.
JobStatsUpdateOneHistogram(js, accepted, jr) ==
    IF DOMAIN UnhandledErrors(jr.Errors, accepted) # {}
    THEN [fatal |-> TRUE, js |-> js]
    ELSE LET u == [js EXCEPT !.jobStats = jobStatsUpdate(@, accepted, jr)] IN
         [fatal |-> FALSE, js |-> [u EXCEPT !.Transactions = histAdd(@, jr.Elapsed)]]

\* An Update that does not look for unhandled errors.
JobStatsUpdateUnchecked(js, accepted, jr) ==
    LET u == [js EXCEPT !.jobStats = jobStatsUpdate(@, accepted, jr)] IN
    [fatal |-> FALSE,
     js |-> IF TotalErrors(jr.Errors) = 0
            THEN [u EXCEPT !.Transactions = histAdd(@, jr.Elapsed)]
            ELSE [u EXCEPT !.Errors = histAdd(@, jr.Elapsed)]]

\* (*JobStats).Update: [fatal, js]
JobStatsUpdate(js, accepted, jr) ==
    IF DOMAIN UnhandledErrors(jr.Errors, accepted) # {}
    THEN [fatal |-> TRUE, js |-> js]
    ELSE LET u == [js EXCEPT !.jobStats = jobStatsUpdate(@, accepted, jr)] IN
         [fatal |-> FALSE,
          js |-> IF TotalErrors(jr.Errors) = 0
                 THEN [u EXCEPT !.Transactions = histAdd(@, jr.Elapsed)]
                 ELSE [u EXCEPT !.Errors = histAdd(@, jr.Elapsed)]]

\* What has been seen once jr has been processed: one more result of its
\* job, with its queries.
Counted(sn, jr) ==
    [sn EXCEPT ![jr.Name].n = @ + 1, ![jr.Name].queries = @ + jr.Queries]

\* What has been seen once the ticker case has logged the entries of recent:
\* per job the samples of the windows logged so far.
Reported(sn, recent) ==
    [name \in DOMAIN sn |->
        IF name \in DOMAIN recent
        THEN [sn[name] EXCEPT !.tx = @ + recent[name].Transactions.count,
                              !.ab = @ + recent[name].Errors.count]
        ELSE sn[name]]

\* The map m with an entry for key k, created as zero when missing.
Ensure(m, k, zero) == IF k \in DOMAIN m THEN m ELSE m @@ (k :> zero)

\* processResults, the case of a JobResult received from resultChan (no
\* query-stats-file): [fatal, all, recent]
ProcessResult(all, recent, accepted, jr) ==
    LET all1 == Ensure(all, jr.Name, JobStatsZero)
        recent1 == Ensure(recent, jr.Name, jobStatsZero)
        u == JobStatsUpdate(all1[jr.Name], accepted, jr)
    IN IF u.fatal
       THEN [fatal |-> TRUE, all |-> all1, recent |-> recent1]
       ELSE [fatal |-> FALSE,
             all |-> [all1 EXCEPT ![jr.Name] = u.js],
             recent |-> [recent1 EXCEPT ![jr.Name] = jobStatsUpdate(@, accepted, jr)]]

\* ------------------------------------------------------------ configuration
\* A Job as decodeJobSection leaves it. Queries, CSV rows and log lines are
\* sequences of characters or tokens. QueryArgs and QueryLog are
\* [present, rows] and [present, lines]: present is the handle being non-nil.
ArgsFile(rows) == [present |-> TRUE, rows |-> rows]
NoArgsFile == [present |-> FALSE, rows |-> <<>>]
LogFile(lines) == [present |-> TRUE, lines |-> lines]
NoLogFile == [present |-> FALSE, lines |-> <<>>]

Job(name, queries, queueDepth, rate, count, batchSize, queryLog, queryArgs, start, stop) ==
    [Name |-> name, Queries |-> queries, QueueDepth |-> queueDepth, Rate |-> rate,
     Count |-> count, BatchSize |-> batchSize, QueryLog |-> queryLog,
     QueryArgs |-> queryArgs, QueryResults |-> FALSE, Start |-> start,
     Stop |-> stop]

\* The job with a query-results-file.
WithResults(job) == [job EXCEPT !.QueryResults = TRUE]

\* ------------------------------------------------------------ job.go: sources
\* getNextJobInvocation with getNextQueryArgs: one row of the args file per
\* query; [err (io.EOF), qis, pos (rows read so far)].
RECURSIVE NextQueryInvocations(_, _, _, _)
NextQueryInvocations(job, pos, i, qis) ==
    IF i > Len(job.Queries) THEN [err |-> FALSE, qis |-> qis, pos |-> pos]
    ELSE IF ~job.QueryArgs.present
    THEN NextQueryInvocations(job, pos, i + 1,
             Append(qis, [query |-> job.Queries[i], args |-> <<>>]))
    ELSE IF pos >= Len(job.QueryArgs.rows)
    THEN [err |-> TRUE, qis |-> qis, pos |-> pos]
    ELSE NextQueryInvocations(job, pos + 1, i + 1,
             Append(qis, [query |-> job.Queries[i], args |-> job.QueryArgs.rows[pos + 1]]))

\* A reader that hands out the queries it has args for when the rows run
\* out in the middle of an invocation.
getNextJobInvocationPartial(job, pos) ==
    LET g == NextQueryInvocations(job, pos, 1, <<>>)
    IN IF g.err /\ Len(g.qis) > 0 THEN [g EXCEPT !.err = FALSE] ELSE g

\* A reader that passes over a row of the args file before each read.
getNextJobInvocationSkipping(job, pos) ==
    NextQueryInvocations(job, pos + 1, 1, <<>>)

getNextJobInvocation(job, pos) == NextQueryInvocations(job, pos, 1, <<>>)

\* A jobInvocation; id tells apart the invocations a source allocates
\* (pointer identity).
JobInvocation(name, qis, id) == [name |-> name, queries |-> qis, id |-> id]

\* strings.SplitN(line, ",", 2)
FirstComma(line) ==
    IF \E i \in 1..Len(line) : line[i] = ","
    THEN CHOOSE i \in 1..Len(line) :
             line[i] = "," /\ \A k \in 1..(i - 1) : line[k] # ","
    ELSE 0

\* A split at the last comma of the line.
SplitLast(line) ==
    IF \E i \in 1..Len(line) : line[i] = ","
    THEN LET c == CHOOSE i \in 1..Len(line) :
                      line[i] = "," /\ \A k \in (i + 1)..Len(line) : line[k] # ","
         IN <<SubSeq(line, 1, c - 1), SubSeq(line, c + 1, Len(line))>>
    ELSE <<line>>

SplitN2(line) ==
    LET c == FirstComma(line) IN
    IF c = 0 THEN <<line>>
    ELSE <<SubSeq(line, 1, c - 1), SubSeq(line, c + 1, Len(line))>>

Digit == ("0" :> 0) @@ ("1" :> 1) @@ ("2" :> 2) @@ ("3" :> 3) @@ ("4" :> 4) @@
         ("5" :> 5) @@ ("6" :> 6) @@ ("7" :> 7) @@ ("8" :> 8) @@ ("9" :> 9)

RECURSIVE DecimalValue(_, _)
DecimalValue(s, acc) ==
    IF s = <<>> THEN acc ELSE DecimalValue(Tail(s), 10 * acc + Digit[Head(s)])

\* strconv.ParseInt(s, 10, 64): [err, v]
ParseInt(s) ==
    LET neg == s # <<>> /\ Head(s) = "-"
        body == IF s # <<>> /\ Head(s) \in {"-", "+"} THEN Tail(s) ELSE s
    IN IF body = <<>> \/ \E i \in 1..Len(body) : body[i] \notin DOMAIN Digit
       THEN [err |-> TRUE, v |-> 0]
       ELSE [err |-> FALSE,
             v |-> IF neg THEN 0 - DecimalValue(body, 0) ELSE DecimalValue(body, 0)]

\* The mode startQueryChannel selects.
SourceMode(job) ==
    IF job.Rate > 0 THEN "tick"
    ELSE IF job.QueryLog.present THEN "log"
    ELSE "count"

\* ------------------------------------------------------------ state
VARIABLES
    config,          \* the Config: Duration, Setup, Teardown, Jobs, AcceptedErrors
    now,             \* the clock
    orch,            \* runTest: [pc, i]; pc "run" is processResults' loop
    orchLog,         \* the setup and teardown queries runTest has run, in order
    ctxCancelled,    \* cancel() of runTest's context has been called
    sigRegistered,   \* cancelOnInterrupt's channel receives SIGINT
    sig,             \* cancelOnInterrupt's goroutine and channel, the SIGINTs
                     \* sent and the calls of cancel it has made
    coord,           \* the goroutine of makeJobResultChan
    closeCount,      \* how often outChan has been closed
    run,             \* per job: where Job.Run / runLoop stands
    jobT0,           \* per job: startTime of Job.Run
    held,            \* per job: the invocation runLoop received and has not spawned
    queueSem,        \* per job: the permits in queueSem
    src,             \* per job: the goroutine of startQueryChannel
    workers,         \* per job: the bag of worker goroutines of runLoop
    emitLog,         \* per job: the invocations the source has sent, in order
    released,        \* per job: the Close calls of cleanup, per resource
    allTestStats,    \* processResults: name -> JobStats
    recentTestStats, \* processResults: name -> jobStats
    fatal,           \* log.Fatalf has ended the process
    inv,             \* one call of Invoke, query by query (SpecInvoke)
    fed,             \* the results fed to the processor (SpecProc)
    seen,            \* per job: the results processed and the windows reported
                     \* so far (SpecProc)
    errs,            \* an ErrorCounts being filled and then split (SpecErr)
    parsed,          \* one job section and what decodeJobSection makes of it
    merge,           \* mergeJobResultChans: inputs, forwarders, wg, outchan, the reader
    stats            \* one StreamingStats, the values to add and how many were added
                     \* (SpecDecode)

orchVars == <<orch, orchLog, ctxCancelled, sigRegistered, sig, coord, closeCount>>
jobVars == <<run, jobT0, held, queueSem, src, workers, emitLog, released>>
statVars == <<allTestStats, recentTestStats>>
sideVars == <<inv, fed, seen, errs, parsed, merge, stats>>
vars == <<config, now, orchVars, jobVars, statVars, fatal, sideVars>>

\* The names of the configured jobs (the keys of config.Jobs).
Jobs == DOMAIN config.Jobs

\* ------------------------------------------------------------ inputs
Q1 == <<"q1">>
Q2 == <<"q2">>

ErrAccepted == DbError("E1", TRUE)
ErrOther == DbError("E2", TRUE)
ErrUnrecognised == DbError("X", FALSE)

\* What RunQuery returns to a worker of the scheduler.
PipeOutcomes ==
    {Outcome(1, NoErr, 1), Outcome(0, ErrAccepted, 1),
     Outcome(0, ErrOther, 1), Outcome(0, ErrUnrecognised, 1)}

LogLines == << <<"0", ",", "q", "a">>, <<"1", ",", "q", ",", "b">> >>

\* The jobs a run is configured with: one job of any pacing mode, or two
\* jobs that run side by side.
CountedJobs ==
    {Job("j1", <<Q1>>, 1, 0, 0, 0, NoLogFile, NoArgsFile, 0, 0),
     Job("j1", <<Q1>>, 2, 0, 3, 0, NoLogFile, NoArgsFile, 0, 1)}

PacedJobs ==
    {Job("j2", <<Q2>>, 0, 1, 2, 2, NoLogFile, NoArgsFile, 1, 0),
     Job("j2", <<>>, 0, 0, 0, 0, LogFile(LogLines), NoArgsFile, 0, 0)}

SmallCounted == Job("j1", <<Q1>>, 1, 0, 1, 0, NoLogFile, NoArgsFile, 0, 0)
SmallPaced == Job("j2", <<Q2>>, 0, 1, 1, 1, NoLogFile, NoArgsFile, 0, 0)

JobSets ==
    {("j1" :> a) : a \in CountedJobs} \cup {("j2" :> b) : b \in PacedJobs}
        \cup {("j1" :> SmallCounted) @@ ("j2" :> SmallPaced)}

Configs ==
    {[Duration |-> d, Setup |-> <<"s1", "s2">>, Teardown |-> <<"t1">>,
      Jobs |-> js, AcceptedErrors |-> {"E1"}, IntermediateUpdates |-> FALSE] :
        d \in {0, 1}, js \in JobSets}

srcZero ==
    [pc |-> "none", n |-> 0, bi |-> 0, ji |-> None, pos |-> 0, lastTime |-> 0,
     tickPending |-> FALSE, timerAt |-> 0, allocs |-> 0, sentAt |-> 0]

invIdle == [pc |-> "idle"]

\* Before cancelOnInterrupt: no goroutine, nothing in the channel, no SIGINT
\* sent, cancel not called.
sigZero == [pc |-> "none", buf |-> 0, sent |-> 0, cancels |-> 0]
parsedIdle == [pc |-> "idle"]
mergeIdle == [pc |-> "idle"]
statsIdle == [pc |-> "idle"]

\* The scheduler before runTest's first step.
InitRun ==
    /\ now = 0
    /\ orch = [pc |-> "setup", i |-> 1]
    /\ orchLog = <<>>
    /\ ctxCancelled = FALSE
    /\ sigRegistered = FALSE
    /\ sig = sigZero
    /\ coord = "none"
    /\ closeCount = 0
    /\ run = [j \in Jobs |-> "none"]
    /\ jobT0 = [j \in Jobs |-> 0]
    /\ held = [j \in Jobs |-> None]
    /\ queueSem = [j \in Jobs |-> 0]
    /\ src = [j \in Jobs |-> srcZero]
    /\ workers = [j \in Jobs |-> EmptyBag]
    /\ emitLog = [j \in Jobs |-> <<>>]
    /\ released = [j \in Jobs |-> [results |-> 0, log |-> 0]]

\* processResults before its loop: the two maps are empty.
\* An empty ErrorCounts, nothing added.
errsZero == [pc |-> "add", ec |-> EmptyMap, n |-> 0]

\* Nothing processed, nothing reported.
seenZero == [n |-> 0, queries |-> 0, tx |-> 0, ab |-> 0]

InitStats ==
    /\ allTestStats = EmptyMap
    /\ recentTestStats = EmptyMap
    /\ fatal = FALSE
    /\ seen = [name \in Jobs |-> seenZero]
    /\ errs = errsZero

Init ==
    /\ config \in Configs
    /\ InitRun /\ InitStats
    /\ inv = invIdle
    /\ fed = 0
    /\ parsed = parsedIdle
    /\ merge = mergeIdle
    /\ stats = statsIdle

\* ------------------------------------------------------------ contexts
\* A process that log.Fatalf does not end.
AliveDespiteFatal == orch.pc # "exit"

\* The process runs: log.Fatalf has not ended it and runTest has not returned.
Alive == ~fatal /\ orch.pc # "exit"

\* Done() of runTest's context (cancel, or the global duration).
RunCtxDone ==
    ctxCancelled \/ (config.Duration > 0 /\ now >= config.Duration)

\* A job context that is never done.
JobCtxNever(j) == FALSE

\* A stop deadline that takes the place of the run context.
JobCtxOwnDeadline(j) ==
    IF config.Jobs[j].Stop > 0
    THEN run[j] \notin {"none", "init"} /\ now >= jobT0[j] + config.Jobs[j].Stop
    ELSE RunCtxDone

\* Done() of the context Job.Run uses (the job's stop deadline on top).
JobCtxDone(j) ==
    \/ RunCtxDone
    \/ /\ config.Jobs[j].Stop > 0
       /\ run[j] \notin {"none", "init"}
       /\ now >= jobT0[j] + config.Jobs[j].Stop

\* ------------------------------------------------------------ dbbench.go: runTest
\* One setup query; an error is fatal.
SetupQuery ==
    /\ Alive /\ orch.pc = "setup" /\ orch.i <= Len(config.Setup)
    /\ orchLog' = Append(orchLog, config.Setup[orch.i])
    /\ \E ok \in BOOLEAN :
         IF ok THEN orch' = [orch EXCEPT !.i = @ + 1] /\ UNCHANGED fatal
         ELSE fatal' = TRUE /\ UNCHANGED orch
    /\ UNCHANGED <<config, now, ctxCancelled, sigRegistered, sig, coord, closeCount,
                   jobVars, statVars, sideVars>>

\* After setup: the context, cancelOnInterrupt, makeJobResultChan, and
\* processResults entering its loop.
StartRun ==
    /\ Alive /\ orch.pc = "setup" /\ orch.i > Len(config.Setup)
    /\ orch' = [pc |-> "run", i |-> 0]
    /\ sigRegistered' = TRUE
    /\ sig' = [sig EXCEPT !.pc = "wait"]
    /\ coord' = "spawn"
    /\ UNCHANGED <<config, now, orchLog, ctxCancelled, closeCount,
                   jobVars, statVars, fatal, sideVars>>

\* A SIGINT arrives and cancelOnInterrupt's goroutine runs to its end:
\* signal.Stop, cancel, close.
Interrupt ==
    /\ Alive /\ sigRegistered
    /\ sigRegistered' = FALSE
    /\ ctxCancelled' = TRUE
    /\ sig' = [sig EXCEPT !.pc = "done", !.sent = @ + 1, !.cancels = @ + 1]
    /\ UNCHANGED <<config, now, orch, orchLog, coord, closeCount,
                   jobVars, statVars, fatal, sideVars>>

\* Time passes while the workload runs. The clock is coarse: the goroutines
\* of makeJobResultChan have started before it first advances.
Tick ==
    /\ Alive /\ orch.pc = "run" /\ now < MaxTime
    /\ \A j \in Jobs : run[j] \notin {"none", "init"}
    /\ now' = now + 1
    /\ UNCHANGED <<config, orchVars, jobVars, statVars, fatal, sideVars>>

\* A processor that returns without having seen the channel closed.
ResultsClosedAlways == TRUE

\* The receive from resultChan reports the channel closed.
ResultsClosed == closeCount > 0

\* processResults sees resultChan closed and returns allTestStats.
ProcClosed ==
    /\ Alive /\ orch.pc = "run" /\ ResultsClosed
    /\ orch' = [pc |-> "report", i |-> 0]
    /\ UNCHANGED <<config, now, orchLog, ctxCancelled, sigRegistered, sig, coord,
                   closeCount, jobVars, statVars, fatal, sideVars>>

\* processResults' ticker: the recent stats are logged and the window reset.
ProcTick ==
    /\ Alive /\ orch.pc = "run" /\ config.IntermediateUpdates
    /\ DOMAIN recentTestStats # {}
    /\ recentTestStats' = EmptyMap
    /\ seen' = Reported(seen, recentTestStats)
    /\ UNCHANGED <<config, now, orchVars, jobVars, allTestStats, fatal, inv, fed, errs, parsed, merge, stats>>

\* runTest logs the final stats.
Report ==
    /\ Alive /\ orch.pc = "report"
    /\ orch' = [pc |-> "teardown", i |-> 1]
    /\ UNCHANGED <<config, now, orchLog, ctxCancelled, sigRegistered, sig, coord,
                   closeCount, jobVars, statVars, fatal, sideVars>>

\* One teardown query; an error is fatal.
TeardownQuery ==
    /\ Alive /\ orch.pc = "teardown" /\ orch.i <= Len(config.Teardown)
    /\ orchLog' = Append(orchLog, config.Teardown[orch.i])
    /\ \E ok \in BOOLEAN :
         IF ok THEN orch' = [orch EXCEPT !.i = @ + 1] /\ UNCHANGED fatal
         ELSE fatal' = TRUE /\ UNCHANGED orch
    /\ UNCHANGED <<config, now, ctxCancelled, sigRegistered, sig, coord, closeCount,
                   jobVars, statVars, sideVars>>

\* runTest returns: the deferred cancel runs.
Return ==
    /\ Alive /\ orch.pc = "teardown" /\ orch.i > Len(config.Teardown)
    /\ orch' = [pc |-> "exit", i |-> 0]
    /\ ctxCancelled' = TRUE
    /\ UNCHANGED <<config, now, orchLog, sigRegistered, sig, coord, closeCount,
                   jobVars, statVars, fatal, sideVars>>

\* ------------------------------------------------------------ job.go: makeJobResultChan
\* The coordinator starts one goroutine per job (wg.Add before each).
CoordSpawn ==
    /\ Alive /\ coord = "spawn"
    /\ coord' = "wait"
    /\ run' = [j \in Jobs |-> "init"]
    /\ UNCHANGED <<config, now, orch, orchLog, ctxCancelled, sigRegistered, sig,
                   closeCount, jobT0, held, queueSem, src, workers, emitLog,
                   released, statVars, fatal, sideVars>>

\* A coordinator whose wg.Wait() never returns.
AllRunsDoneNever == FALSE

\* A coordinator that does not wait for the jobs.
AllRunsDoneAlways == TRUE

\* Every j.Run has returned.
AllRunsDone == \A j \in Jobs : run[j] = "done"

\* wg.Wait() returns once every j.Run has returned; then close(outChan).
CoordClose ==
    /\ Alive /\ coord = "wait" /\ AllRunsDone
    /\ coord' = "done"
    /\ closeCount' = closeCount + 1
    /\ UNCHANGED <<config, now, orch, orchLog, ctxCancelled, sigRegistered, sig,
                   jobVars, statVars, fatal, sideVars>>

\* ------------------------------------------------------------ job.go: Run
\* Job.Run starts: startTime, and the stop deadline counted from it.
JobRun(j) ==
    /\ Alive /\ run[j] = "init"
    /\ jobT0' = [jobT0 EXCEPT ![j] = now]
    /\ run' = [run EXCEPT ![j] = "waitStart"]
    /\ UNCHANGED <<config, now, orchVars, released, held, queueSem, src, workers, emitLog,
                   statVars, fatal, sideVars>>

\* Job.cleanup: Close on the query-results sink and on the query log, each
\* when the job has one. r counts the Close calls so far.
cleanup(job, r) ==
    [results |-> r.results + (IF job.QueryResults THEN 1 ELSE 0),
     log |-> r.log + (IF job.QueryLog.present THEN 1 ELSE 0)]

\* Run's select, case <-ctx.Done(): return (cleanup runs).
RunCancelled(j) ==
    /\ Alive /\ run[j] = "waitStart" /\ JobCtxDone(j)
    /\ run' = [run EXCEPT ![j] = "done"]
    /\ released' = [released EXCEPT ![j] = cleanup(config.Jobs[j], @)]
    /\ UNCHANGED <<config, now, orchVars, jobT0, held, queueSem, src, workers,
                   emitLog, statVars, fatal, sideVars>>

\* A start timer that is due at once.
StartElapsedAlways(j) == TRUE

\* The timer time.NewTimer(job.Start) of Run's select has fired.
StartElapsed(j) == now >= jobT0[j] + config.Jobs[j].Start

\* Run's select, case timer(job.Start): runLoop fills queueSem and starts
\* the source goroutine.
RunLoopStart(j) ==
    /\ Alive /\ run[j] = "waitStart" /\ StartElapsed(j)
    /\ run' = [run EXCEPT ![j] = "loop"]
    /\ queueSem' = [queueSem EXCEPT ![j] = config.Jobs[j].QueueDepth]
    /\ src' = [src EXCEPT ![j].pc = "next"]
    /\ UNCHANGED <<config, now, orchVars, released, jobT0, held, workers, emitLog,
                   statVars, fatal, sideVars>>

\* ------------------------------------------------------------ job.go: sources
SrcClosed(s) == [s EXCEPT !.pc = "closed", !.ji = None]

\* A loop that goes round once more than count.
CountNotReachedInclusive(job, n) == job.Count = 0 \/ n <= job.Count

\* The loop condition on count of the three sources, after n rounds.
CountNotReached(job, n) == job.Count = 0 \/ n < job.Count

\* The head of the source's loop in counted and in ticked mode: the loop
\* condition and getNextJobInvocation; the source then stands at its select.
NextInvocation(j) ==
    LET job == config.Jobs[j]
        s == src[j]
        g == getNextJobInvocation(job, s.pos)
    IN /\ SourceMode(job) \in {"count", "tick"}
       /\ src' = [src EXCEPT ![j] =
             IF ~CountNotReached(job, s.n) THEN SrcClosed(s)
             ELSE IF g.err THEN SrcClosed([s EXCEPT !.pos = g.pos])
             ELSE [s EXCEPT !.pc = "select", !.pos = g.pos, !.allocs = @ + 1,
                            !.ji = JobInvocation(job.Name, g.qis, s.allocs)]]
       /\ UNCHANGED fatal

\* A replay that never waits.
TimeToSleepNone(linesScanned, timeMicros, lastTime) == 0

\* timeToSleep of startLogQueryChannel for a line stamped timeMicros.
TimeToSleep(linesScanned, timeMicros, lastTime) ==
    IF linesScanned > 0 THEN timeMicros - lastTime ELSE 0

\* The head of the loop of startLogQueryChannel: Scan, the count, the split
\* and the timestamp of the line, and the timer of the select.
NextLogLine(j) ==
    LET job == config.Jobs[j]
        s == src[j]
        lines == job.QueryLog.lines
        parts == SplitN2(lines[s.n + 1])
        t == ParseInt(parts[1])
        timeToSleep == TimeToSleep(s.n, t.v, s.lastTime)
    IN /\ SourceMode(job) = "log"
       /\ IF ~(s.n < Len(lines) /\ CountNotReached(job, s.n))
          THEN src' = [src EXCEPT ![j] = SrcClosed(s)] /\ UNCHANGED fatal
          ELSE IF Len(parts) # 2 \/ t.err
          THEN fatal' = TRUE /\ UNCHANGED src
          ELSE /\ src' = [src EXCEPT ![j] =
                    [s EXCEPT !.pc = "select", !.lastTime = t.v, !.allocs = @ + 1,
                              !.timerAt = now + timeToSleep,
                              !.ji = JobInvocation(job.Name,
                                        <<[query |-> parts[2], args |-> <<>>]>>,
                                        s.allocs)]]
               /\ UNCHANGED fatal

SourceNext(j) ==
    /\ Alive /\ src[j].pc = "next"
    /\ NextInvocation(j) \/ NextLogLine(j)
    /\ UNCHANGED <<config, now, orchVars, released, run, jobT0, held, queueSem, workers,
                   emitLog, statVars, sideVars>>

\* case <-ctx.Done() of the source's select: return, the deferred close(ch).
SourceCancel(j) ==
    /\ Alive /\ src[j].pc = "select" /\ JobCtxDone(j)
    /\ src' = [src EXCEPT ![j] = SrcClosed(@)]
    /\ UNCHANGED <<config, now, orchVars, released, run, jobT0, held, queueSem, workers,
                   emitLog, statVars, fatal, sideVars>>

\* runLoop's range receives ji from the source's channel; then wg.Add(1).
Received(j, ji) ==
    /\ run[j] = "loop"
    /\ run' = [run EXCEPT ![j] = "acquire"]
    /\ held' = [held EXCEPT ![j] = ji]
    /\ emitLog' = [emitLog EXCEPT ![j] = Append(@, ji)]

\* A source with count = 0 and no query-args file (nothing ends it but a
\* cancellation) is cut off after MaxEmit invocations.
MayEmit(j, k) ==
    \/ config.Jobs[j].Count > 0
    \/ config.Jobs[j].QueryArgs.present
    \/ Len(emitLog[j]) + k <= MaxEmit

\* Counted mode, case ch <- ji of the select.
SourceSend(j) ==
    /\ Alive /\ src[j].pc = "select" /\ SourceMode(config.Jobs[j]) = "count"
    /\ MayEmit(j, 1)
    /\ Received(j, src[j].ji)
    /\ src' = [src EXCEPT ![j].pc = "next", ![j].n = @ + 1, ![j].ji = None]
    /\ UNCHANGED <<config, now, orchVars, released, jobT0, queueSem, workers,
                   statVars, fatal, sideVars>>

\* The ticker of startTickQueryChannel: its channel holds one tick.
TickerFire(j) ==
    /\ Alive /\ SourceMode(config.Jobs[j]) = "tick"
    /\ src[j].pc \in {"next", "select", "send"}
    /\ ~src[j].tickPending
    /\ src' = [src EXCEPT ![j].tickPending = TRUE]
    /\ UNCHANGED <<config, now, orchVars, released, run, jobT0, held, queueSem, workers,
                   emitLog, statVars, fatal, sideVars>>

\* Ticked mode, case <-ticker.C of the select: the batch begins.
TickTake(j) ==
    /\ Alive /\ src[j].pc = "select" /\ SourceMode(config.Jobs[j]) = "tick"
    /\ src[j].tickPending
    /\ MayEmit(j, config.Jobs[j].BatchSize)
    /\ src' = [src EXCEPT ![j].pc = "send", ![j].bi = 0, ![j].tickPending = FALSE]
    /\ UNCHANGED <<config, now, orchVars, released, run, jobT0, held, queueSem, workers,
                   emitLog, statVars, fatal, sideVars>>

\* Log mode, case <-timer.C of the select.
LogTimerFire(j) ==
    /\ Alive /\ src[j].pc = "select" /\ SourceMode(config.Jobs[j]) = "log"
    /\ now >= src[j].timerAt
    /\ src' = [src EXCEPT ![j].pc = "send", ![j].bi = 0]
    /\ UNCHANGED <<config, now, orchVars, released, run, jobT0, held, queueSem, workers,
                   emitLog, statVars, fatal, sideVars>>

\* A source that sends once per tick whatever the batch size.
SendsPerWakeOnce(job) == Min2(job.BatchSize, 1)

\* How many sends follow one tick or one timer.
SendsPerWake(job) == IF SourceMode(job) = "tick" THEN job.BatchSize ELSE 1

\* When the last line of a query log was sent (kept for log sources only).
SentAt(job, s) == IF SourceMode(job) = "log" THEN now ELSE s.sentAt

\* A batch loop that looks at the context before each send and gives the
\* batch up once the context is done.
BatchSendCancellable(j) ==
    /\ Alive /\ src[j].pc = "send"
    /\ IF JobCtxDone(j)
       THEN /\ src' = [src EXCEPT ![j] = SrcClosed(@)]
            /\ UNCHANGED <<run, held, emitLog>>
       ELSE /\ Received(j, src[j].ji)
            /\ src' = [src EXCEPT ![j] =
                  IF @.bi + 1 >= SendsPerWake(config.Jobs[j])
                  THEN [@ EXCEPT !.pc = "next", !.bi = 0, !.n = @ + 1, !.ji = None,
                                 !.sentAt = SentAt(config.Jobs[j], src[j])]
                  ELSE [@ EXCEPT !.bi = @ + 1]]
    /\ UNCHANGED <<config, now, orchVars, released, jobT0, queueSem, workers,
                   statVars, fatal, sideVars>>

\* ch <- ji inside the select's case (ticked: the bi-th of the batch; log:
\* the line's only send); after the last one the loop counter advances.
BatchSend(j) ==
    /\ Alive /\ src[j].pc = "send"
    /\ Received(j, src[j].ji)
    /\ src' = [src EXCEPT ![j] =
          IF @.bi + 1 >= SendsPerWake(config.Jobs[j])
          THEN [@ EXCEPT !.pc = "next", !.bi = 0, !.n = @ + 1, !.ji = None,
                         !.sentAt = SentAt(config.Jobs[j], src[j])]
          ELSE [@ EXCEPT !.bi = @ + 1]]
    /\ UNCHANGED <<config, now, orchVars, released, jobT0, queueSem, workers,
                   statVars, fatal, sideVars>>

\* ------------------------------------------------------------ job.go: runLoop
\* A runLoop that takes the unbounded branch whatever the queue depth.
BoundedNever(j) == FALSE

\* if j.QueueDepth > 0: the runner uses the semaphore.
Bounded(j) == config.Jobs[j].QueueDepth > 0

\* A worker goroutine: the invocation, time.Since(startTime), and the
\* JobResult once Invoke has returned.
Worker(ji, start) == [ji |-> ji, start |-> start, phase |-> "invoke", r |-> None]

\* A runner that starts its worker without taking a permit.
RunnerSpawnFree(j) ==
    /\ Alive /\ run[j] = "acquire"
    /\ workers' = [workers EXCEPT ![j] =
                      @ (+) SetToBag({Worker(held[j], now - jobT0[j])})]
    /\ held' = [held EXCEPT ![j] = None]
    /\ run' = [run EXCEPT ![j] = "loop"]
    /\ UNCHANGED <<config, now, orchVars, released, jobT0, queueSem, src, emitLog,
                   statVars, fatal, sideVars>>

\* A runner that takes its permit from one semaphore shared by all the jobs:
\* it waits while any bounded job has none left.
RunnerSpawnShared(j) ==
    /\ Alive /\ run[j] = "acquire"
    /\ \A k \in Jobs : Bounded(k) => queueSem[k] > 0
    /\ queueSem' = [queueSem EXCEPT ![j] = IF Bounded(j) THEN @ - 1 ELSE @]
    /\ workers' = [workers EXCEPT ![j] =
                      @ (+) SetToBag({Worker(held[j], now - jobT0[j])})]
    /\ held' = [held EXCEPT ![j] = None]
    /\ run' = [run EXCEPT ![j] = "loop"]
    /\ UNCHANGED <<config, now, orchVars, released, jobT0, src, emitLog, statVars, fatal,
                   sideVars>>

\* <-queueSem (when bounded), then go func(_ji).
RunnerSpawn(j) ==
    /\ Alive /\ run[j] = "acquire"
    /\ Bounded(j) => queueSem[j] > 0
    /\ queueSem' = [queueSem EXCEPT ![j] = IF Bounded(j) THEN @ - 1 ELSE @]
    /\ workers' = [workers EXCEPT ![j] =
                      @ (+) SetToBag({Worker(held[j], now - jobT0[j])})]
    /\ held' = [held EXCEPT ![j] = None]
    /\ run' = [run EXCEPT ![j] = "loop"]
    /\ UNCHANGED <<config, now, orchVars, released, jobT0, src, emitLog, statVars, fatal,
                   sideVars>>

\* A range that ends while the source is still running.
RunnerDrainedEarly(j) ==
    /\ Alive /\ run[j] = "loop"
    /\ run' = [run EXCEPT ![j] = "wait"]
    /\ UNCHANGED <<config, now, orchVars, released, jobT0, held, queueSem, src,
                   workers, emitLog, statVars, fatal, sideVars>>

\* The range over the source's channel ends: the channel is closed.
RunnerDrained(j) ==
    /\ Alive /\ run[j] = "loop" /\ src[j].pc = "closed"
    /\ run' = [run EXCEPT ![j] = "wait"]
    /\ UNCHANGED <<config, now, orchVars, released, jobT0, held, queueSem, src, workers,
                   emitLog, statVars, fatal, sideVars>>

\* A runLoop that does not wait for its workers.
WorkersDoneAlways(j) == TRUE

\* runLoop's wg.Wait() can return: every worker has called wg.Done().
WorkersDone(j) == workers[j] = EmptyBag

\* wg.Wait() returns, close(queueSem), runLoop and Run return (cleanup).
RunnerFinish(j) ==
    /\ Alive /\ run[j] = "wait" /\ WorkersDone(j)
    /\ run' = [run EXCEPT ![j] = "done"]
    /\ released' = [released EXCEPT ![j] = cleanup(config.Jobs[j], @)]
    /\ UNCHANGED <<config, now, orchVars, jobT0, held, queueSem, src, workers,
                   emitLog, statVars, fatal, sideVars>>

\* A worker's Invoke returns (every RunQuery of it has returned), and the
\* worker puts its permit back.
WorkerInvoke(j) ==
    /\ Alive
    /\ \E w \in BagToSet(workers[j]) :
         /\ w.phase = "invoke"
         /\ \E outs \in [1..Len(w.ji.queries) -> PipeOutcomes] :
              LET res == Invoke(w.ji, outs, w.start) IN
              IF res.fatal
              THEN fatal' = TRUE /\ UNCHANGED <<workers, queueSem>>
              ELSE /\ workers' = [workers EXCEPT ![j] =
                         (@ (-) SetToBag({w}))
                            (+) SetToBag({[w EXCEPT !.phase = "send", !.r = res.result]})]
                   /\ queueSem' = [queueSem EXCEPT ![j] =
                                      IF Bounded(j) THEN @ + 1 ELSE @]
                   /\ UNCHANGED fatal
    /\ UNCHANGED <<config, now, orchVars, released, run, jobT0, held, src, emitLog,
                   statVars, sideVars>>

\* results <- r meets processResults' receive: the processor updates the
\* stats with r; the worker's deferred wg.Done() follows its send.
WorkerSend(j) ==
    /\ Alive /\ orch.pc = "run"
    /\ \E w \in BagToSet(workers[j]) :
         /\ w.phase = "send"
         /\ workers' = [workers EXCEPT ![j] = @ (-) SetToBag({w})]
         /\ LET p == ProcessResult(allTestStats, recentTestStats,
                                   config.AcceptedErrors, w.r)
            IN /\ allTestStats' = p.all
               /\ recentTestStats' = p.recent
               /\ fatal' = p.fatal
    /\ UNCHANGED <<config, now, orchVars, released, run, jobT0, held, queueSem, src,
                   emitLog, sideVars>>

\* ------------------------------------------------------------ the scheduler
Next ==
    \/ SetupQuery \/ StartRun \/ Interrupt \/ Tick
    \/ ProcClosed \/ Report \/ TeardownQuery \/ Return
    \/ CoordSpawn \/ CoordClose
    \/ \E j \in Jobs :
         \/ JobRun(j) \/ RunCancelled(j) \/ RunLoopStart(j)
         \/ SourceNext(j) \/ SourceCancel(j) \/ SourceSend(j)
         \/ TickerFire(j) \/ TickTake(j) \/ LogTimerFire(j) \/ BatchSend(j)
         \/ RunnerSpawn(j) \/ RunnerDrained(j) \/ RunnerFinish(j)
         \/ WorkerInvoke(j) \/ WorkerSend(j)

Spec == Init /\ [][Next]_vars

\* ------------------------------------------------------------ Invoke, query by query
\* What RunQuery may return to Invoke: rows, or an error (sqlDb returns no
\* rows with an error).
InvOutcomes ==
    {Outcome(r, NoErr, 1) : r \in 0..2}
        \cup {Outcome(0, e, 1) : e \in {ErrAccepted, ErrOther, ErrUnrecognised}}

\* The invocations handed to Invoke: 1..MaxQueries queries, without args.
InvInvocations ==
    {JobInvocation("j1", [k \in 1..n |-> [query |-> qs[k], args |-> <<>>]], 0) :
        n \in 1..MaxQueries, qs \in [1..MaxQueries -> {Q1, Q2}]}

\* A run that only calls Invoke: one job, nothing scheduled.
InvokeConfig ==
    [Duration |-> 0, Setup |-> <<>>, Teardown |-> <<>>,
     Jobs |-> ("j1" :> Job("j1", <<Q1>>, 1, 0, 0, 0, NoLogFile, NoArgsFile, 0, 0)),
     AcceptedErrors |-> {"E1"}, IntermediateUpdates |-> FALSE]

InitInvoke ==
    /\ config = InvokeConfig
    /\ InitRun /\ InitStats
    /\ \E ji \in InvInvocations, start \in {0, 1} :
         inv = [pc |-> "loop", ji |-> ji, start |-> start, i |-> 1,
                acc |-> InvokeStart, outs |-> <<>>, result |-> None]
    /\ fed = 0
    /\ parsed = parsedIdle
    /\ merge = mergeIdle
    /\ stats = statsIdle

\* One turn of Invoke's loop: RunQuery returns out for query i. outs keeps
\* what RunQuery returned so far.
InvokeQuery ==
    /\ ~fatal /\ inv.pc = "loop" /\ inv.i <= Len(inv.ji.queries)
    /\ \E out \in InvOutcomes :
         LET acc == InvokeStep(inv.acc, inv.ji.queries[inv.i], out) IN
         /\ inv' = [inv EXCEPT !.acc = acc, !.outs = Append(@, out),
                               !.i = IF acc.fatal THEN @ ELSE @ + 1]
         /\ fatal' = acc.fatal
    /\ UNCHANGED <<config, now, orchVars, jobVars, statVars, fed, seen, errs, parsed, merge, stats>>

\* Invoke's return statement.
InvokeReturn ==
    /\ ~fatal /\ inv.pc = "loop" /\ inv.i > Len(inv.ji.queries)
    /\ inv' = [inv EXCEPT !.pc = "returned",
                          !.result = InvokeResult(inv.ji, inv.acc, inv.start)]
    /\ UNCHANGED <<config, now, orchVars, jobVars, statVars, fatal, fed, seen, errs, parsed, merge, stats>>

NextInvoke == InvokeQuery \/ InvokeReturn

SpecInvoke == InitInvoke /\ [][NextInvoke]_vars

\* ------------------------------------------------------------ the sources
\* Runs of one job each, over the ways a source ends: the rows of a
\* query-args file run out, the count is reached, the log ends, the start
\* delay is cut short.
ArgRows == << <<"a">>, <<"b">> >>

SourceJobs ==
    {("j1" :> Job("j1", <<Q1>>, 1, 0, 0, 0, NoLogFile, ArgsFile(ArgRows), 0, 0)),
     ("j1" :> Job("j1", <<Q1>>, 2, 0, 3, 0, NoLogFile, ArgsFile(ArgRows), 0, 0)),
     ("j1" :> WithResults(Job("j1", <<Q1>>, 1, 0, 2, 0, NoLogFile, NoArgsFile, 1, 0))),
     ("j1" :> Job("j1", <<Q1>>, 1, 0, 0, 0, NoLogFile, NoArgsFile, 0, 0)),
     ("j2" :> Job("j2", <<Q2>>, 0, 1, 0, 1, NoLogFile, ArgsFile(ArgRows), 0, 0)),
     ("j2" :> Job("j2", <<>>, 0, 0, 1, 0, LogFile(LogLines), NoArgsFile, 1, 0)),
     ("j2" :> Job("j2", <<>>, 0, 0, 0, 0, LogFile(LogLines), NoArgsFile, 0, 0)),
     ("j2" :> Job("j2", <<>>, 0, 0, 3, 0, LogFile(LogLines), NoArgsFile, 0, 0))}

SourceConfigs ==
    {[Duration |-> d, Setup |-> <<"s1">>, Teardown |-> <<"t1">>,
      Jobs |-> js, AcceptedErrors |-> {"E1"}, IntermediateUpdates |-> FALSE] :
        d \in {0, 1}, js \in SourceJobs}

InitSources ==
    /\ config \in SourceConfigs
    /\ InitRun /\ InitStats
    /\ inv = invIdle
    /\ fed = 0
    /\ parsed = parsedIdle
    /\ merge = mergeIdle
    /\ stats = statsIdle

SpecSources == InitSources /\ [][Next]_vars

\* ------------------------------------------------------------ processResults alone
\* The JobResults the processor is fed: what Invoke returns for one or two
\* queries of job j1 or j2.
ProcOutcomes ==
    {Outcome(1, NoErr, 1), Outcome(0, ErrAccepted, 2), Outcome(0, ErrOther, 1)}

ProcInvocations ==
    {JobInvocation(name, qis, 0) :
        name \in {"j1", "j2"},
        qis \in {<<[query |-> Q1, args |-> <<>>]>>,
                 <<[query |-> Q1, args |-> <<>>], [query |-> Q2, args |-> <<>>]>>}}

ProcInputs ==
    UNION {{Invoke(ji, outs, start).result :
                outs \in [1..Len(ji.queries) -> ProcOutcomes], start \in {0, 1}} :
           ji \in ProcInvocations}

ProcConfig ==
    [Duration |-> 0, Setup |-> <<>>, Teardown |-> <<>>,
     Jobs |-> ("j1" :> Job("j1", <<Q1>>, 1, 0, 0, 0, NoLogFile, NoArgsFile, 0, 0))
                @@ ("j2" :> Job("j2", <<Q1, Q2>>, 1, 0, 0, 0, NoLogFile, NoArgsFile, 0, 0)),
     AcceptedErrors |-> {"E1"}, IntermediateUpdates |-> TRUE]

\* processResults in its loop, the jobs' side left out.
InitProc ==
    /\ config = ProcConfig
    /\ InitRun /\ InitStats
    /\ inv = invIdle
    /\ fed = 0
    /\ parsed = parsedIdle
    /\ merge = mergeIdle
    /\ stats = statsIdle

\* processResults receives jr.
ProcFeed(jr) ==
    /\ ~fatal /\ fed < MaxFeed
    /\ fed' = fed + 1
    /\ LET p == ProcessResult(allTestStats, recentTestStats,
                              config.AcceptedErrors, jr)
       IN /\ allTestStats' = p.all
          /\ recentTestStats' = p.recent
          /\ fatal' = p.fatal
          /\ seen' = IF p.fatal THEN seen ELSE Counted(seen, jr)
    /\ UNCHANGED <<config, now, orchVars, jobVars, inv, errs, parsed, merge, stats>>

\* A ticker case that keeps the window it has reported.
ProcTickKeeping ==
    /\ ~fatal /\ config.IntermediateUpdates
    /\ DOMAIN recentTestStats # {}
    /\ seen' = Reported(seen, recentTestStats)
    /\ UNCHANGED <<config, now, orchVars, jobVars, statVars, fatal, inv, fed, errs, parsed, merge, stats>>

\* processResults' ticker with the scheduler left out.
ProcTickAlone ==
    /\ ~fatal /\ config.IntermediateUpdates
    /\ DOMAIN recentTestStats # {}
    /\ recentTestStats' = EmptyMap
    /\ seen' = Reported(seen, recentTestStats)
    /\ UNCHANGED <<config, now, orchVars, jobVars, allTestStats, fatal, inv, fed, errs, parsed, merge, stats>>

NextProc == (\E jr \in ProcInputs : ProcFeed(jr)) \/ ProcTickAlone

SpecProc == InitProc /\ [][NextProc]_vars

\* ------------------------------------------------------------ ErrorCounts alone
\* The errors added to an ErrorCounts, the queries they are counted for and
\* the accepted sets it is split by ("E4" is a code no error has).
ErrInputs == {ErrAccepted, ErrOther, DbError("E3", TRUE), ErrUnrecognised}
ErrQueries == {Q1, Q2}
AcceptedSets == SUBSET {"E1", "E2", "E4"}

InitErr ==
    /\ config = ProcConfig
    /\ InitRun /\ InitStats
    /\ inv = invIdle
    /\ fed = 0
    /\ parsed = parsedIdle
    /\ merge = mergeIdle
    /\ stats = statsIdle

\* ErrorCounts.Add of err for query; an error whose code cannot be told is
\* returned and not counted.
ErrAdd(err, query) ==
    /\ errs.pc = "add" /\ errs.n < MaxErrs
    /\ errs' = [errs EXCEPT !.ec = ecAdd(@, err, query).ec, !.n = @ + 1]
    /\ UNCHANGED <<config, now, orchVars, jobVars, statVars, fatal, inv, fed, seen, parsed, merge, stats>>

\* TotalErrors, TotalAccepted and UnhandledErrors of the counts added so far.
ErrSplit(errors) ==
    /\ errs.pc = "add"
    /\ errs' = [pc |-> "split", before |-> errs.ec, errors |-> errors,
                after |-> Split(errs.ec, errors)]
    /\ UNCHANGED <<config, now, orchVars, jobVars, statVars, fatal, inv, fed, seen, parsed, merge, stats>>

NextErr ==
    \/ \E err \in ErrInputs, query \in ErrQueries : ErrAdd(err, query)
    \/ \E errors \in AcceptedSets : ErrSplit(errors)

SpecErr == InitErr /\ [][NextErr]_vars

\* ------------------------------------------------------------ config.go: decodeJobSection
\* An option of a section: given with the text v, or not given.
Opt(v) == [given |-> TRUE, v |-> v]
NoOpt == [given |-> FALSE, v |-> <<>>]

\* A float64: a number or NaN, with the comparisons of the language (every
\* comparison with NaN is false).
Flt(v) == [nan |-> FALSE, v |-> v]
NaN == [nan |-> TRUE, v |-> 0]
FltNeg(f) == ~f.nan /\ f.v < 0
FltZero(f) == ~f.nan /\ f.v = 0
FltPos(f) == ~f.nan /\ f.v > 0

\* strconv.ParseFloat(s, 64) on the texts of RateTexts: a decimal integer,
\* or "NaN": [err, f]
ParseFloat(s) ==
    IF s = <<"N", "a", "N">> THEN [err |-> FALSE, f |-> NaN]
    ELSE [err |-> ParseInt(s).err, f |-> Flt(ParseInt(s).v)]

\* strconv.ParseUint(s, 10, 0): digits only, no sign: [err, v]
ParseUint(s) ==
    IF s = <<>> \/ \E i \in 1..Len(s) : s[i] \notin DOMAIN Digit
    THEN [err |-> TRUE, v |-> 0]
    ELSE [err |-> FALSE, v |-> DecimalValue(s, 0)]

\* time.ParseDuration on the texts of DurationTexts, in seconds: "0", or a
\* signed decimal integer followed by the unit s: [err, v]
ParseDuration(s) ==
    IF s = <<"0">> THEN [err |-> FALSE, v |-> 0]
    ELSE IF Len(s) < 2 \/ s[Len(s)] # "s" THEN [err |-> TRUE, v |-> 0]
    ELSE ParseInt(SubSeq(s, 1, Len(s) - 1))

\* The paths os.Open can open.
Files == {<<"f">>}

\* The texts a section gives its options.
RateTexts == {<<"0">>, <<"2">>, <<"-", "1">>, <<"N", "a", "N">>, <<"x">>}
BatchTexts == {<<"0">>, <<"1">>, <<"3">>, <<"-", "1">>}
DepthTexts == {<<"0">>, <<"2">>}
ConcurrencyTexts == {<<"3">>}
PathTexts == {<<"f">>, <<"g">>}

\* The job sections: the queries of the query options, multi-query-mode =
\* multi-connection given or not, query-args-delim given or not, and the
\* unique options each given once or not at all.
Sections ==
    [query : {<<>>, <<Q1>>, <<Q1, Q2>>},
     multi : BOOLEAN,
     rate : {NoOpt} \cup {Opt(v) : v \in RateTexts},
     batch : {NoOpt} \cup {Opt(v) : v \in BatchTexts},
     depth : {NoOpt} \cup {Opt(v) : v \in DepthTexts},
     concurrency : {NoOpt} \cup {Opt(v) : v \in ConcurrencyTexts},
     log : {NoOpt} \cup {Opt(v) : v \in PathTexts},
     args : {NoOpt, Opt(<<"f">>)},
     delim : BOOLEAN,
     start : {NoOpt},
     stop : {NoOpt}]

\* new(Job) with its name.
NewJob(name) ==
    Job(name, <<>>, 0, Flt(0), 0, 0, NoLogFile, NoArgsFile, 0, 0)

\* jobOptions.Decode: the Parse function of every option given, on the job
\* and the parser; an error of any of them is the error of Decode. queue-depth
\* and concurrency both assign QueueDepth: of the two, last is parsed last.
DecodeOptions(section, last) ==
    LET rate == IF section.rate.given THEN ParseFloat(section.rate.v)
                ELSE [err |-> FALSE, f |-> Flt(0)]
        batch == IF section.batch.given THEN ParseUint(section.batch.v)
                 ELSE [err |-> FALSE, v |-> 0]
        depth == IF section.depth.given THEN ParseUint(section.depth.v)
                 ELSE [err |-> FALSE, v |-> 0]
        conc == IF section.concurrency.given THEN ParseUint(section.concurrency.v)
                ELSE [err |-> FALSE, v |-> 0]
        logOpen == section.log.given /\ section.log.v \in Files
        argsOpen == section.args.given /\ section.args.v \in Files
        start == IF section.start.given THEN ParseDuration(section.start.v)
                 ELSE [err |-> FALSE, v |-> 0]
        stop == IF section.stop.given THEN ParseDuration(section.stop.v)
                ELSE [err |-> FALSE, v |-> 0]
    IN [err |-> \/ rate.err \/ FltNeg(rate.f)
                \/ start.err \/ stop.err
                \/ batch.err \/ depth.err \/ conc.err
                \/ (section.log.given /\ ~logOpen)
                \/ (section.args.given /\ ~argsOpen),
        job |-> [NewJob("j1") EXCEPT
                    !.Queries = section.query,
                    !.Start = start.v,
                    !.Stop = stop.v,
                    !.Rate = rate.f,
                    !.BatchSize = batch.v,
                    !.QueueDepth =
                        IF section.concurrency.given
                           /\ (~section.depth.given \/ last = "concurrency")
                        THEN conc.v ELSE depth.v,
                    !.QueryLog = IF logOpen THEN LogFile(LogLines) ELSE NoLogFile],
        queryArgsFile |-> argsOpen,
        queryArgsDelim |-> section.delim,
        multiQueryAllowed |-> section.multi]

\* A count of job types that leaves the query log out.
DifferentJobTypesNoLog(job) ==
    (IF job.QueueDepth > 0 THEN 1 ELSE 0) + (IF FltPos(job.Rate) THEN 1 ELSE 0)

\* differentJobTypes of decodeJobSection.
DifferentJobTypes(job) ==
    (IF job.QueueDepth > 0 THEN 1 ELSE 0)
    + (IF job.QueryLog.present THEN 1 ELSE 0)
    + (IF FltPos(job.Rate) THEN 1 ELSE 0)

Rejected(job, err) == [err |-> err, job |-> job]

\* The batch-size rule of decodeJobSection.
BatchWithoutRate(job) == FltZero(job.Rate) /\ job.BatchSize > 0

\* decodeJobSection: [err ("" for nil), job]
decodeJobSection(section, last) ==
    LET d == DecodeOptions(section, last)
        job == d.job
    IN IF d.err THEN Rejected(job, "option")
       ELSE IF Len(job.Queries) = 0 /\ ~job.QueryLog.present
       THEN Rejected(job, "no query provided")
       ELSE IF Len(job.Queries) > 0 /\ job.QueryLog.present
       THEN Rejected(job, "cannot have both queries and a query log")
       ELSE IF Len(job.Queries) > 1 /\ ~d.multiQueryAllowed
       THEN Rejected(job, "must have only one query")
       ELSE IF BatchWithoutRate(job)
       THEN Rejected(job, "can only specify batch-size with rate")
       ELSE IF d.queryArgsDelim /\ ~d.queryArgsFile
       THEN Rejected(job, "Cannot set query-args-delim with no query-args-file")
       ELSE IF d.queryArgsFile /\ job.QueryLog.present
       THEN Rejected(job, "Cannot use query-args-file with query-log-file")
       ELSE LET differentJobTypes == DifferentJobTypes(job)
                j1 == IF differentJobTypes = 0
                      THEN [job EXCEPT !.QueueDepth = 1] ELSE job
            IN IF differentJobTypes > 1
               THEN Rejected(j1, "Can only specify one of rate, queue-depth, or query-log-file")
               ELSE LET j2 == IF FltPos(j1.Rate) /\ j1.BatchSize = 0
                              THEN [j1 EXCEPT !.BatchSize = 1] ELSE j1
                    IN [err |-> "",
                        job |-> IF d.queryArgsFile
                                THEN [j2 EXCEPT !.QueryArgs = ArgsFile(ArgRows)]
                                ELSE j2]

\* decodeJobSection alone, on every section of Sections.
InitDecode ==
    /\ config = ProcConfig
    /\ InitRun /\ InitStats
    /\ inv = invIdle
    /\ fed = 0
    /\ parsed \in {[pc |-> "section", section |-> s] : s \in Sections}
    /\ merge = mergeIdle
    /\ stats = statsIdle

\* decodeConfigJobs calls decodeJobSection for the section.
DecodeJob(last) ==
    /\ parsed.pc = "section"
    /\ parsed' = [pc |-> "decoded", section |-> parsed.section,
                  options |-> DecodeOptions(parsed.section, last).job,
                  result |-> decodeJobSection(parsed.section, last)]
    /\ UNCHANGED <<config, now, orchVars, jobVars, statVars, fatal, inv, fed, seen,
                   errs, merge, stats>>

NextDecode == \E last \in {"queue-depth", "concurrency"} : DecodeJob(last)

SpecDecode == InitDecode /\ [][NextDecode]_vars

\* ------------------------------------------------------------ config.go: parseIniConfig
\* The texts a file gives duration, start and stop.
DurationTexts == {<<"0", "s">>, <<"1", "s">>, <<"2", "s">>, <<"-", "1", "s">>, <<"x">>}

\* The job sections of a file: one query, start and stop given or not.
IniSections ==
    [query : {<<Q1>>}, multi : {FALSE}, rate : {NoOpt}, batch : {NoOpt},
     depth : {NoOpt}, concurrency : {NoOpt}, log : {NoOpt}, args : {NoOpt},
     delim : {FALSE},
     start : {NoOpt} \cup {Opt(v) : v \in DurationTexts},
     stop : {NoOpt} \cup {Opt(v) : v \in DurationTexts}]

\* The files: the duration of the global section given or not, and two job
\* sections (no setup, no teardown).
IniFiles ==
    [duration : {NoOpt} \cup {Opt(v) : v \in DurationTexts},
     jobs : [{"j1", "j2"} -> IniSections]]

\* A job that no start or stop rule stands against.
OutsideTestNever(duration, job) == ""

\* The loop body of parseIniConfig over config.Jobs: the error for job, ""
\* for none.
OutsideTest(duration, job) ==
    IF duration > 0 /\ job.Start > duration THEN "starts after test finishes"
    ELSE IF job.Stop > 0 /\ duration > 0 /\ job.Stop > duration
    THEN "stops after test finishes"
    ELSE ""

\* parseIniConfig: [err ("" for nil), config]
parseIniConfig(file, last) ==
    LET duration == IF file.duration.given THEN ParseDuration(file.duration.v)
                    ELSE [err |-> FALSE, v |-> 0]
        decoded == [name \in DOMAIN file.jobs |->
                        decodeJobSection(file.jobs[name], last)]
        jobs == [name \in DOMAIN file.jobs |->
                    [decoded[name].job EXCEPT !.Name = name]]
        config1 == [Duration |-> duration.v, Setup |-> <<>>, Teardown |-> <<>>,
                    Jobs |-> jobs]
    IN IF duration.err THEN [err |-> "Error parsing global section", config |-> config1]
       ELSE IF \E name \in DOMAIN decoded : decoded[name].err # ""
       THEN [err |-> "Error parsing job", config |-> config1]
       ELSE IF \E name \in DOMAIN jobs : OutsideTest(duration.v, jobs[name]) # ""
       THEN [err |-> LET name == CHOOSE n \in DOMAIN jobs :
                                    OutsideTest(duration.v, jobs[n]) # ""
                     IN OutsideTest(duration.v, jobs[name]),
             config |-> config1]
       ELSE [err |-> "", config |-> config1]

\* parseIniConfig alone, on every file of IniFiles.
InitIni ==
    /\ config = ProcConfig
    /\ InitRun /\ InitStats
    /\ inv = invIdle
    /\ fed = 0
    /\ parsed \in {[pc |-> "file", file |-> f] : f \in IniFiles}
    /\ merge = mergeIdle
    /\ stats = statsIdle

ParseIni(last) ==
    /\ parsed.pc = "file"
    /\ parsed' = [pc |-> "parsed", file |-> parsed.file,
                  result |-> parseIniConfig(parsed.file, last)]
    /\ UNCHANGED <<config, now, orchVars, jobVars, statVars, fatal, inv, fed, seen,
                   errs, merge, stats>>

NextIni == \E last \in {"queue-depth", "concurrency"} : ParseIni(last)

SpecIni == InitIni /\ [][NextIni]_vars

\* ------------------------------------------------------------ dbbench.go: cancelOnInterrupt, step by step
\* A goroutine that goes back to its receive after close.
HandlerLoops(pc) ==
    IF pc = "stop" THEN "cancel" ELSE IF pc = "cancel" THEN "close" ELSE "wait"

\* The statements of cancelOnInterrupt's goroutine after its receive:
\* signal.Stop(c), cancel(), close(c), and its end.
HandlerAfter(pc) ==
    IF pc = "stop" THEN "cancel" ELSE IF pc = "cancel" THEN "close" ELSE "done"

\* The user sends a SIGINT. With c registered the runtime sends it to c
\* without blocking (c has room for one, a further one is dropped); with no
\* channel registered (before signal.Notify, after signal.Stop) the signal
\* has its default effect and the process ends.
Sigint ==
    /\ Alive /\ sig.sent < MaxSignals
    /\ IF sigRegistered
       THEN /\ sig' = [sig EXCEPT !.sent = @ + 1, !.buf = Min2(@ + 1, 1)]
            /\ UNCHANGED fatal
       ELSE /\ sig' = [sig EXCEPT !.sent = @ + 1]
            /\ fatal' = TRUE
    /\ UNCHANGED <<config, now, orch, orchLog, ctxCancelled, sigRegistered, coord,
                   closeCount, jobVars, statVars, sideVars>>

\* <-c
HandlerReceive ==
    /\ Alive /\ sig.pc = "wait" /\ sig.buf > 0
    /\ sig' = [sig EXCEPT !.pc = "stop", !.buf = @ - 1]
    /\ UNCHANGED <<config, now, orch, orchLog, ctxCancelled, sigRegistered, coord,
                   closeCount, jobVars, statVars, fatal, sideVars>>

\* signal.Stop(c)
HandlerStop ==
    /\ Alive /\ sig.pc = "stop"
    /\ sigRegistered' = FALSE
    /\ sig' = [sig EXCEPT !.pc = HandlerAfter(@)]
    /\ UNCHANGED <<config, now, orch, orchLog, ctxCancelled, coord,
                   closeCount, jobVars, statVars, fatal, sideVars>>

\* cancel()
HandlerCancel ==
    /\ Alive /\ sig.pc = "cancel"
    /\ ctxCancelled' = TRUE
    /\ sig' = [sig EXCEPT !.pc = HandlerAfter(@), !.cancels = @ + 1]
    /\ UNCHANGED <<config, now, orch, orchLog, sigRegistered, coord,
                   closeCount, jobVars, statVars, fatal, sideVars>>

\* close(c); the goroutine ends.
HandlerClose ==
    /\ Alive /\ sig.pc = "close"
    /\ sig' = [sig EXCEPT !.pc = HandlerAfter(@)]
    /\ UNCHANGED <<config, now, orch, orchLog, ctxCancelled, sigRegistered, coord,
                   closeCount, jobVars, statVars, fatal, sideVars>>

\* One unlimited counted job with a start delay, no global duration: only a
\* SIGINT ends the run.
SignalConfig ==
    [Duration |-> 0, Setup |-> <<"s1">>, Teardown |-> <<"t1">>,
     Jobs |-> ("j1" :> Job("j1", <<Q1>>, 1, 0, 0, 0, NoLogFile, NoArgsFile, 1, 0)),
     AcceptedErrors |-> {"E1"}, IntermediateUpdates |-> FALSE]

InitSignal ==
    /\ config = SignalConfig
    /\ InitRun /\ InitStats
    /\ inv = invIdle
    /\ fed = 0
    /\ parsed = parsedIdle
    /\ merge = mergeIdle
    /\ stats = statsIdle

NextSignal ==
    \/ SetupQuery \/ StartRun \/ Tick
    \/ Sigint \/ HandlerReceive \/ HandlerStop \/ HandlerCancel \/ HandlerClose
    \/ ProcClosed \/ Report \/ TeardownQuery \/ Return
    \/ CoordSpawn \/ CoordClose
    \/ \E j \in Jobs :
         \/ JobRun(j) \/ RunCancelled(j) \/ RunLoopStart(j)
         \/ SourceNext(j) \/ SourceCancel(j) \/ SourceSend(j)
         \/ RunnerSpawn(j) \/ RunnerDrained(j) \/ RunnerFinish(j)
         \/ WorkerInvoke(j) \/ WorkerSend(j)

SpecSignal == InitSignal /\ [][NextSignal]_vars

\* The goroutine of cancelOnInterrupt is scheduled.
FairSpecSignal ==
    /\ InitSignal /\ [][NextSignal]_vars
    /\ WF_vars(HandlerReceive) /\ WF_vars(HandlerStop) /\ WF_vars(HandlerCancel)

\* ------------------------------------------------------------ two jobs, one with a stop deadline
\* j1 runs until it is stopped, by its own deadline or by the run; j2 sends
\* one invocation, after its start delay.
CtxJobs(stop) ==
    ("j1" :> Job("j1", <<Q1>>, 1, 0, 0, 0, NoLogFile, NoArgsFile, 0, stop))
        @@ ("j2" :> Job("j2", <<Q2>>, 1, 0, 1, 0, NoLogFile, NoArgsFile, 1, 0))

\* No global duration and a stop deadline for j1; or a global duration that
\* expires ahead of the stop deadline of j1.
CtxConfigs ==
    {[Duration |-> d, Setup |-> <<>>, Teardown |-> <<>>, Jobs |-> CtxJobs(d + 1),
      AcceptedErrors |-> {"E1"}, IntermediateUpdates |-> FALSE] : d \in {0, 1}}

InitCtx ==
    /\ config \in CtxConfigs
    /\ InitRun /\ InitStats
    /\ inv = invIdle
    /\ fed = 0
    /\ parsed = parsedIdle
    /\ merge = mergeIdle
    /\ stats = statsIdle

NextCtx ==
    \/ StartRun \/ Interrupt \/ Tick
    \/ ProcClosed \/ Report \/ Return
    \/ CoordSpawn \/ CoordClose
    \/ \E j \in Jobs :
         \/ JobRun(j) \/ RunCancelled(j) \/ RunLoopStart(j)
         \/ SourceNext(j) \/ SourceCancel(j) \/ SourceSend(j)
         \/ RunnerSpawn(j) \/ RunnerDrained(j) \/ RunnerFinish(j)
         \/ WorkerInvoke(j) \/ WorkerSend(j)

SpecCtx == InitCtx /\ [][NextCtx]_vars

\* ------------------------------------------------------------ fairness
JobNames == {"j1", "j2"}

\* The Go scheduler runs every goroutine that can take a step; every database
\* call returns and the processor keeps receiving (weak fairness). A select
\* with several ready cases picks one at random, so a case that is ready
\* again and again is taken at some point (strong fairness of the
\* ctx.Done() cases). Interrupts, ticks and timers are not forced.
\* A worker of job j stands at results <- r and the processor receives:
\* the guard of WorkerSend(j), which is ENABLED <<WorkerSend(j)>>_vars since
\* the step always removes the worker.
SendReady(j) ==
    /\ j \in Jobs /\ Alive /\ orch.pc = "run"
    /\ \E w \in BagToSet(workers[j]) : w.phase = "send"

\* WF_vars(WorkerSend(j)) written out with that guard.
WFWorkerSend(j) ==
    []<>(~SendReady(j)) \/ []<><<j \in Jobs /\ WorkerSend(j)>>_vars

Fairness ==
    /\ WF_vars(CoordSpawn) /\ WF_vars(CoordClose) /\ WF_vars(ProcClosed)
    /\ \A j \in JobNames :
         /\ WF_vars(j \in Jobs /\ JobRun(j))
         /\ SF_vars(j \in Jobs /\ RunCancelled(j))
         /\ WF_vars(j \in Jobs /\ SourceNext(j))
         /\ SF_vars(j \in Jobs /\ SourceCancel(j))
         /\ WF_vars(j \in Jobs /\ BatchSend(j))
         /\ WF_vars(j \in Jobs /\ RunnerSpawn(j))
         /\ WF_vars(j \in Jobs /\ RunnerDrained(j))
         /\ WF_vars(j \in Jobs /\ RunnerFinish(j))
         /\ WF_vars(j \in Jobs /\ WorkerInvoke(j))
         /\ WFWorkerSend(j)

FairSpec == Init /\ [][Next]_vars /\ Fairness

\* A source at its select with the context not done: the channel send meets
\* the runner's receive, the ticker keeps ticking and its tick is taken.
SourceFairness ==
    \A j \in JobNames :
        /\ WF_vars(j \in Jobs /\ SourceSend(j))
        /\ WF_vars(j \in Jobs /\ TickerFire(j))
        /\ WF_vars(j \in Jobs /\ TickTake(j))

FairSpecSources ==
    InitSources /\ [][Next]_vars /\ Fairness /\ SourceFairness

\* ------------------------------------------------------------ process.go: mergeJobResultChans
\* The JobResults a producer sends on input channel i, told apart by the
\* channel and their place on it.
Items(i, k) == [j \in 1..k |-> [ch |-> i, k |-> j]]

\* What the producers are going to send: n input channels, each with up to
\* MaxItems JobResults (the forwarders are alike: the inputs are listed with
\* the longest first).
MergeInputs ==
    UNION {{[i \in 1..n |-> Items(i, f[i])] :
                f \in {g \in [1..n -> 0..MaxItems] :
                          \A i \in 1..(n - 1) : g[i] >= g[i + 1]}} :
             n \in 0..MaxInputs}

\* A buffer as large as the number of inputs.
MergeCapOne(n) == n

\* make(chan JobResult, 2*len(chans))
MergeCap(n) == 2 * n

\* mergeJobResultChans(chans...) has returned: outchan made, wg.Add(len(chans))
\* done, one forwarder per input at its range receive, the closer at wg.Wait().
MergeStart(ins) ==
    [pc |-> "run", n |-> Len(ins), all |-> ins, todo |-> ins,
     inClosed |-> [i \in 1..Len(ins) |-> FALSE],
     fwd |-> [i \in 1..Len(ins) |-> [pc |-> "recv", jr |-> None]],
     cap |-> MergeCap(Len(ins)), out |-> <<>>, wg |-> Len(ins),
     closer |-> "wait", closes |-> 0, got |-> <<>>, sawClosed |-> FALSE]

InitMerge ==
    /\ config = ProcConfig
    /\ InitRun /\ InitStats
    /\ inv = invIdle
    /\ fed = 0
    /\ parsed = parsedIdle
    /\ merge \in {MergeStart(ins) : ins \in MergeInputs}
    /\ stats = statsIdle

MergeRest == <<config, now, orchVars, jobVars, statVars, fatal, inv, fed, seen, errs, parsed, stats>>

\* A producer's send on input i meets the forwarder's range receive.
ForwarderReceive(i) ==
    /\ merge.pc = "run" /\ merge.fwd[i].pc = "recv" /\ merge.todo[i] # <<>>
    /\ merge' = [merge EXCEPT !.todo[i] = Tail(@),
                              !.fwd[i] = [pc |-> "send", jr |-> Head(merge.todo[i])]]
    /\ UNCHANGED MergeRest

\* The producer closes input i after its last send.
InputClose(i) ==
    /\ merge.pc = "run" /\ merge.todo[i] = <<>> /\ ~merge.inClosed[i]
    /\ merge' = [merge EXCEPT !.inClosed[i] = TRUE]
    /\ UNCHANGED MergeRest

\* outchan <- jr: it waits while the buffer is full.
ForwarderSend(i) ==
    /\ merge.pc = "run" /\ merge.fwd[i].pc = "send"
    /\ Len(merge.out) < merge.cap
    /\ merge' = [merge EXCEPT !.out = Append(@, merge.fwd[i].jr),
                              !.fwd[i] = [pc |-> "recv", jr |-> None]]
    /\ UNCHANGED MergeRest

\* The range over input i ends at its close: wg.Done().
ForwarderDone(i) ==
    /\ merge.pc = "run" /\ merge.fwd[i].pc = "recv" /\ merge.inClosed[i]
    /\ merge' = [merge EXCEPT !.fwd[i].pc = "done", !.wg = @ - 1]
    /\ UNCHANGED MergeRest

\* wg.Wait() returns, close(outchan), the closer ends.
OutClose ==
    /\ merge.pc = "run" /\ merge.closer = "wait" /\ merge.wg = 0
    /\ merge' = [merge EXCEPT !.closer = "done", !.closes = @ + 1]
    /\ UNCHANGED MergeRest

\* The reader of outchan (processResults) receives the oldest JobResult.
OutReceive ==
    /\ merge.pc = "run" /\ merge.out # <<>>
    /\ merge' = [merge EXCEPT !.out = Tail(@), !.got = Append(@, Head(merge.out))]
    /\ UNCHANGED MergeRest

\* The reader's receive on the closed and empty outchan.
OutClosedSeen ==
    /\ merge.pc = "run" /\ merge.out = <<>> /\ merge.closes > 0 /\ ~merge.sawClosed
    /\ merge' = [merge EXCEPT !.sawClosed = TRUE]
    /\ UNCHANGED MergeRest

NextMerge ==
    \/ OutClose \/ OutReceive \/ OutClosedSeen
    \/ \E i \in 1..MaxInputs :
         /\ i <= merge.n
         /\ \/ ForwarderReceive(i) \/ InputClose(i)
            \/ ForwarderSend(i) \/ ForwarderDone(i)

SpecMerge == InitMerge /\ [][NextMerge]_vars

\* ------------------------------------------------------------ StreamingStats alone
\* The values handed to Add one after the other: every sequence of up to
\* MaxAdds values 0..MaxValue, and the three of TestStreamingStats.
StatsInputs ==
    UNION {[1..n -> 0..MaxValue] : n \in 0..MaxAdds}
        \cup {<<1, 2>>, <<1, 2, 3, 4, 5>>, <<1, 1, 1>>}

InitStream ==
    /\ config = ProcConfig
    /\ InitRun /\ InitStats
    /\ inv = invIdle
    /\ fed = 0
    /\ parsed = parsedIdle
    /\ merge = mergeIdle
    /\ stats \in {[pc |-> "run", xs |-> xs, i |-> 0, ss |-> ssZero] : xs \in StatsInputs}

\* ss.Add(xs[i + 1])
StreamAdd ==
    /\ stats.pc = "run" /\ stats.i < Len(stats.xs)
    /\ stats' = [stats EXCEPT !.i = @ + 1, !.ss = ssAdd(@, stats.xs[stats.i + 1])]
    /\ UNCHANGED <<config, now, orchVars, jobVars, statVars, fatal, inv, fed, seen, errs,
                   parsed, merge>>

NextStream == StreamAdd

SpecStream == InitStream /\ [][NextStream]_vars

\* ------------------------------------------------------------ query logs
\* The query logs replayed: well-formed ones (with further commas, a signed
\* and a two-digit timestamp) and ones with a line that has no comma, an
\* empty timestamp or a timestamp that is no integer, first or second.
QueryLogs ==
    {LogLines,
     << <<"1", "0", ",", ",", "q">>, <<"-", "1", ",", "q", ",">> >>,
     << <<"q", "a">>, <<"0", ",", "q">> >>,
     << <<"0", ",", "q">>, <<"q", "b">> >>,
     << <<",", "q">> >>,
     << <<"0", ",", "a">>, <<"x", ",", "q">> >>,
     << <<"1", "x", ",", "q">> >>}

LogJobs ==
    {("j2" :> Job("j2", <<>>, 0, 0, c, 0, LogFile(lines), NoArgsFile, 0, 0)) :
        c \in {0, 1}, lines \in QueryLogs}

LogConfigs ==
    {[Duration |-> 0, Setup |-> <<>>, Teardown |-> <<>>, Jobs |-> js,
      AcceptedErrors |-> {"E1"}, IntermediateUpdates |-> FALSE] : js \in LogJobs}

InitLog ==
    /\ config \in LogConfigs
    /\ InitRun /\ InitStats
    /\ inv = invIdle
    /\ fed = 0
    /\ parsed = parsedIdle
    /\ merge = mergeIdle
    /\ stats = statsIdle

NextLog ==
    \/ StartRun \/ Interrupt \/ Tick \/ ProcClosed \/ Report \/ Return
    \/ CoordSpawn \/ CoordClose
    \/ \E j \in Jobs :
         \/ JobRun(j) \/ RunCancelled(j) \/ RunLoopStart(j)
         \/ SourceNext(j) \/ SourceCancel(j) \/ LogTimerFire(j) \/ BatchSend(j)
         \/ RunnerSpawn(j) \/ RunnerDrained(j) \/ RunnerFinish(j)
         \/ WorkerInvoke(j) \/ WorkerSend(j)

SpecLog == InitLog /\ [][NextLog]_vars

\* The log source's goroutine is scheduled.
FairSpecLog == SpecLog /\ WF_vars(SourceNext("j2"))

\* The two jobs of SpecCtx where only j2 is scheduled fairly: the database
\* calls of j1's workers may stay blocked for ever.
FairnessOne(j) ==
    /\ WF_vars(j \in Jobs /\ SourceNext(j))
    /\ WF_vars(j \in Jobs /\ SourceSend(j))
    /\ WF_vars(j \in Jobs /\ RunnerSpawn(j))
    /\ WF_vars(j \in Jobs /\ WorkerInvoke(j))
    /\ WFWorkerSend(j)

FairSpecCtx == InitCtx /\ [][NextCtx]_vars /\ FairnessOne("j2")

\* ------------------------------------------------------------ observations
\* The workers of job j in phase ph.
CountPhase(j, ph) ==
    LET S == {w \in BagToSet(workers[j]) : w.phase = ph} IN
    SumOver([w \in S |-> CopiesIn(w, workers[j])], S)

\* The results of job j the processor has taken into the all-time stats.
Processed(j) ==
    IF j \in DOMAIN allTestStats
    THEN allTestStats[j].jobStats.Transactions.count
            + allTestStats[j].jobStats.Errors.count
    ELSE 0

\* processResults has returned.
ProcessorReturned == orch.pc \notin {"setup", "run"}

\* ------------------------------------------------------------ claims
\* C1: for a job with queueDepth Q > 0, the workers that are executing an
\* invocation (spawned, permit not yet released) are never more than Q.
C1_ConcurrencyGate ==
    \A j \in Jobs :
        config.Jobs[j].QueueDepth > 0 =>
            CountPhase(j, "invoke") <= config.Jobs[j].QueueDepth

\* C1 witness: a job of queue depth 2 with two invocations executing at once.
C1_Witness ==
    \E j \in Jobs :
        config.Jobs[j].QueueDepth = 2 /\ CountPhase(j, "invoke") = 2

\* C2: the results channel is closed at most once, and when it is closed no
\* worker of any job is left (none can still send) and every Run has returned.
C2_CloseOnceAfterSends ==
    /\ closeCount <= 1
    /\ closeCount > 0 =>
         \A j \in Jobs :
             workers[j] = EmptyBag /\ held[j] = None /\ run[j] = "done"

\* C2 witness: two jobs, both with results processed, and the channel closed.
C2_Witness ==
    /\ closeCount = 1 /\ Cardinality(Jobs) = 2
    /\ \A j \in Jobs : Processed(j) > 0

\* C3: while the process lives, every invocation the runner received is held
\* by the runner, in the hands of exactly one worker, or processed; once the
\* processor has seen the stream closed, the results processed for a job are
\* as many as the invocations dispatched for it.
C3_NoResultLost ==
    ~fatal =>
        \A j \in Jobs :
            /\ Len(emitLog[j]) =
                  (IF held[j] # None THEN 1 ELSE 0)
                     + BagCardinality(workers[j]) + Processed(j)
            /\ ProcessorReturned => Processed(j) = Len(emitLog[j])

\* C3 witness: the processor has returned after a job of queue depth 2 had
\* all its invocations processed.
C3_Witness ==
    /\ ProcessorReturned /\ ~fatal
    /\ \E j \in Jobs : config.Jobs[j].QueueDepth = 2 /\ Processed(j) = 3

\* The run is over: every worker completed, every Run returned, the stream
\* closed and processResults returned.
ShutdownDone ==
    /\ closeCount = 1 /\ ProcessorReturned
    /\ \A j \in Jobs : run[j] = "done" /\ workers[j] = EmptyBag

\* C4: once the run context is cancelled, and unless the process is ended by
\* a fatal error, the run is eventually over.
C4_GracefulShutdown == RunCtxDone ~> (fatal \/ ShutdownDone)

\* C4 witness: the run is over after a cancellation that found a worker in a
\* database call (the job with count = 0 ends in no other way).
C4_Witness ==
    /\ ShutdownDone /\ ~fatal /\ ctxCancelled /\ orch.pc = "report"
    /\ \E j \in Jobs : config.Jobs[j].Count = 0 /\ Processed(j) > 0

\* C5 as claimed: once a job's context is cancelled, its source sends no
\* further invocation and its runner starts no further worker.
C5_Quiesce ==
    [][\A j \in Jobs :
          JobCtxDone(j) =>
              /\ emitLog'[j] = emitLog[j]
              /\ BagCardinality(workers'[j]) <= BagCardinality(workers[j])]_vars

\* C6: the setup queries run in order before any job goroutine exists; a
\* teardown query runs only when the stream is closed, no worker is left and
\* processResults has returned; runTest returns having run all of teardown.
C6_OrchestratorOrder ==
    LET nSetup == Len(config.Setup) IN
    /\ orch.pc = "setup" =>
         /\ Len(orchLog) <= nSetup
         /\ orchLog = SubSeq(config.Setup, 1, Len(orchLog))
         /\ \A j \in Jobs :
              run[j] = "none" /\ emitLog[j] = <<>> /\ workers[j] = EmptyBag
    /\ orch.pc # "setup" => SubSeq(orchLog, 1, nSetup) = config.Setup
    /\ Len(orchLog) > nSetup =>
         /\ orch.pc \in {"teardown", "exit"}
         /\ closeCount = 1
         /\ \A j \in Jobs : run[j] = "done" /\ workers[j] = EmptyBag
    /\ orch.pc = "exit" => orchLog = config.Setup \o config.Teardown

\* C6 witness: runTest has returned after teardown, the run having been
\* ended by an interrupt (an unlimited job and no duration).
C6_Witness ==
    /\ orch.pc = "exit" /\ config.Duration = 0 /\ ~sigRegistered
    /\ \E j \in Jobs :
         config.Jobs[j].Count = 0 /\ SourceMode(config.Jobs[j]) = "count"

\* Job j is ticked, limited by count, and has no query-args file.
TickJob(j) ==
    /\ SourceMode(config.Jobs[j]) = "tick" /\ config.Jobs[j].Count > 0
    /\ ~config.Jobs[j].QueryArgs.present

\* C10: a ticked source with count C > 0, batch size B and no query-args
\* file sends at most C*B invocations, the k-th being the invocation built
\* for tick (k-1) \div B (B sends per tick, all of the same invocation); it
\* has sent exactly C*B when it closes its channel without a cancellation,
\* and after the C*B-th send it does nothing but close.
C10_TickedCount ==
    \A j \in Jobs :
        TickJob(j) =>
            LET C == config.Jobs[j].Count
                B == config.Jobs[j].BatchSize
                n == Len(emitLog[j])
            IN /\ n <= C * B
               /\ \A k \in 1..n : emitLog[j][k].id = (k - 1) \div B
               /\ \A k \in 1..n : emitLog[j][k].name = j
               /\ (src[j].pc = "closed" /\ ~JobCtxDone(j)) => n = C * B
               /\ n = C * B => src[j].pc \in {"next", "closed"}

\* C10 witness: a ticked source with C = 2 and B = 2 has closed its channel,
\* uncancelled, after four sends.
C10_Witness ==
    \E j \in Jobs :
        /\ TickJob(j) /\ config.Jobs[j].BatchSize = 2
        /\ src[j].pc = "closed" /\ ~JobCtxDone(j) /\ Len(emitLog[j]) = 4

\* ------------------------------------------------------------ claims on Invoke
\* What RunQuery returned to the Invoke under way, and its queries.
InvReturned == inv.pc = "returned"
InvFailed == {k \in 1..Len(inv.outs) : inv.outs[k].err # NoErr}
InvSucceeded == (1..Len(inv.outs)) \ InvFailed
InvRowsOfSucceeded ==
    SumOver([k \in InvSucceeded |-> inv.outs[k].rows], InvSucceeded)

\* The count the ErrorCounts ec holds for code c and query q.
CountOf(ec, c, q) ==
    IF c \in DOMAIN ec /\ q \in DOMAIN ec[c].counts THEN ec[c].counts[q] ELSE 0

\* C8: Invoke hands its queries to RunQuery in order, failed ones not
\* stopping it; when it returns (no error of an unknown kind) it has tried
\* them all, and its one JobResult has Queries = the number of queries,
\* Errors = the failed queries counted by code and query text, so
\* TotalErrors = the number of failed queries, and RowsAffected = the rows
\* of the queries that succeeded.
C8_InvokeResult ==
    inv.pc \in {"loop", "returned"} =>
        LET qs == inv.ji.queries
            outs == inv.outs
        IN /\ Len(outs) <= Len(qs)
           /\ inv.acc.attempted = [k \in 1..Len(outs) |-> qs[k].query]
           /\ (\A k \in InvFailed : inv.outs[k].err.recognised) <=> ~fatal
           /\ InvReturned =>
                /\ Len(outs) = Len(qs)
                /\ inv.result.Name = inv.ji.name
                /\ inv.result.Queries = Len(qs)
                /\ TotalErrors(inv.result.Errors) = Cardinality(InvFailed)
                /\ \A c \in {"E1", "E2", "X"}, q \in {Q1, Q2} :
                     CountOf(inv.result.Errors, c, q) =
                        Cardinality({k \in InvFailed :
                            outs[k].err.code = c /\ qs[k].query = q})
                /\ inv.result.RowsAffected = InvRowsOfSucceeded

\* C8 witness: Invoke has returned from two queries of which the first
\* failed and the second succeeded with rows.
C8_Witness ==
    /\ InvReturned /\ Len(inv.ji.queries) = 2
    /\ InvFailed = {1} /\ inv.outs[2].rows > 0

\* C9 as claimed: RowsAffected is 0 whenever a query of the invocation failed.
C9_RowsZeroOnFailure ==
    (InvReturned /\ InvFailed # {}) => inv.result.RowsAffected = 0

\* C9: RowsAffected is the sum of the rows of the queries that succeeded,
\* whatever the other queries did; it is 0 when every query failed.
C9_RowsOfSucceeded ==
    InvReturned =>
        /\ inv.result.RowsAffected = InvRowsOfSucceeded
        /\ InvSucceeded = {} => inv.result.RowsAffected = 0

\* C9 witness: a query failed and RowsAffected is not 0.
C9_Witness ==
    InvReturned /\ InvFailed # {} /\ inv.result.RowsAffected > 0

\* ------------------------------------------------------------ claims on processResults
\* The entry of name in a stats map, the zero value when it has none.
AllOf(all, name) == IF name \in DOMAIN all THEN all[name] ELSE JobStatsZero
RecentOf(recent, name) ==
    IF name \in DOMAIN recent THEN recent[name] ELSE jobStatsZero

\* C7: when processResults takes a JobResult with errors, all of accepted
\* codes, the process goes on and the result is counted in the job's aborts
\* (Errors) aggregators and in no transactions aggregator; when it takes a
\* JobResult with an error code outside the accepted set the process ends
\* with every all-time and recent statistic as it was.
C7_ErrorClassification ==
    [][\A jr \in ProcInputs :
          ProcFeed(jr) =>
            LET codes == DOMAIN jr.Errors
                was == AllOf(allTestStats, jr.Name)
                is == AllOf(allTestStats', jr.Name)
            IN /\ (codes # {} /\ codes \subseteq config.AcceptedErrors) =>
                    /\ ~fatal'
                    /\ histTotal(is.Errors) = histTotal(was.Errors) + 1
                    /\ is.jobStats.Errors.count = was.jobStats.Errors.count + 1
                    /\ is.Transactions = was.Transactions
                    /\ is.jobStats.Transactions = was.jobStats.Transactions
                    /\ is.jobStats.AcceptedErrors =
                          was.jobStats.AcceptedErrors + TotalErrors(jr.Errors)
               /\ (codes \ config.AcceptedErrors # {}) =>
                    /\ fatal'
                    /\ \A name \in DOMAIN config.Jobs :
                         /\ AllOf(allTestStats', name) = AllOf(allTestStats, name)
                         /\ RecentOf(recentTestStats', name) =
                               RecentOf(recentTestStats, name)]_vars

\* C7 witness: the process has ended on a result with an unaccepted error
\* after a result with accepted errors was counted in a job's aborts.
C7_Witness ==
    /\ fatal /\ fed >= 2
    /\ \E name \in DOMAIN allTestStats :
         /\ allTestStats[name].jobStats.Errors.count > 0
         /\ allTestStats[name].jobStats.AcceptedErrors > 0

\* ------------------------------------------------------------ claims on the sources
\* Job j has one query, count = 0 and a query-args file, and sends each
\* invocation once.
ArgsJob(j) ==
    /\ Len(config.Jobs[j].Queries) = 1 /\ config.Jobs[j].Count = 0
    /\ config.Jobs[j].QueryArgs.present
    /\ SendsPerWake(config.Jobs[j]) = 1

\* The i-th invocation dispatched carries row i; no more than n are
\* dispatched, and a source closed or a Run returned with the context not
\* done has dispatched n.
ArgsInOrder ==
    \A j \in Jobs :
        ArgsJob(j) =>
            LET rows == config.Jobs[j].QueryArgs.rows
                n == Len(emitLog[j])
            IN /\ n <= Len(rows)
               /\ \A k \in 1..n :
                    emitLog[j][k].queries =
                        <<[query |-> config.Jobs[j].Queries[1], args |-> rows[k]]>>
               /\ (src[j].pc = "closed" /\ ~JobCtxDone(j)) => n = Len(rows)
               /\ (run[j] = "done" /\ ~JobCtxDone(j)) =>
                    n = Len(rows) /\ workers[j] = EmptyBag

\* The runLoop of an args job is under way.
ArgsJobRunning(j) == j \in Jobs /\ ArgsJob(j) /\ run[j] = "loop"

\* Job.Run of job j has returned, or the process has ended.
JobOver(j) == fatal \/ (j \in Jobs /\ run[j] = "done")

CountedJob(j) == SourceMode(config.Jobs[j]) = "count"

\* The source of job j has read every row of its query-args file.
ArgsExhausted(j) ==
    /\ config.Jobs[j].QueryArgs.present
    /\ src[j].pos >= Len(config.Jobs[j].QueryArgs.rows)

\* C12: a counted job with count C > 0 never dispatches more than C
\* invocations, and has dispatched exactly C when its source closes with
\* the context not done and the args not exhausted; the source of a counted
\* job with count = 0 and no args file closes, and its Run returns, only
\* with the job's context done.
C12_CountLimit ==
    \A j \in Jobs :
        CountedJob(j) =>
            LET C == config.Jobs[j].Count
                n == Len(emitLog[j])
            IN /\ C > 0 =>
                    /\ n <= C
                    /\ (src[j].pc = "closed" /\ ~JobCtxDone(j) /\ ~ArgsExhausted(j))
                          => n = C
               /\ (C = 0 /\ ~config.Jobs[j].QueryArgs.present) =>
                    ((src[j].pc = "closed" \/ run[j] = "done") => JobCtxDone(j))

\* C12 witness: a counted job with count 2 has returned, never cancelled,
\* after two invocations.
C12_Witness ==
    \E j \in Jobs :
        /\ CountedJob(j) /\ config.Jobs[j].Count = 2
        /\ run[j] = "done" /\ ~JobCtxDone(j) /\ ~fatal
        /\ Len(emitLog[j]) = 2 /\ Processed(j) = 2

\* Job j replays a query log.
LogJob(j) == SourceMode(config.Jobs[j]) = "log"

\* The timestamp of line i of job j's log.
LogTime(j, i) == ParseInt(SplitN2(config.Jobs[j].QueryLog.lines[i])[1]).v

\* How many lines job j's log source emits when nothing cancels it.
LogLimit(j) ==
    LET nLines == Len(config.Jobs[j].QueryLog.lines) IN
    IF config.Jobs[j].Count > 0 THEN Min2(config.Jobs[j].Count, nLines)
    ELSE nLines

\* C13: a log source dispatches, in file order, one invocation per line
\* holding the line's query alone and no args; the timer of the first line
\* is due at once, the timer of line i > 1 is due no sooner than
\* t_i - t_(i-1) after the send of line i - 1, and a line is sent only with
\* its timer due; no more than min(count, lines) (all lines when count = 0)
\* are dispatched, and exactly that many when the source closes with the
\* context not done.
C13_LogReplay ==
    \A j \in Jobs :
        LogJob(j) =>
            LET lines == config.Jobs[j].QueryLog.lines
                n == Len(emitLog[j])
                s == src[j]
            IN /\ n <= LogLimit(j)
               /\ \A k \in 1..n :
                    emitLog[j][k].queries =
                        <<[query |-> SplitN2(lines[k])[2], args |-> <<>>]>>
               /\ (s.pc = "closed" /\ ~JobCtxDone(j)) => n = LogLimit(j)
               /\ (s.pc \in {"select", "send"} /\ s.n = 0) => s.timerAt <= now
               /\ (s.pc \in {"select", "send"} /\ s.n > 0) =>
                    s.timerAt >= s.sentAt + (LogTime(j, s.n + 1) - LogTime(j, s.n))
               /\ s.pc = "send" => now >= s.timerAt
               /\ s.sentAt <= now

\* C13 witness: a log of two lines one time unit apart has been replayed to
\* its end, the second line sent a time unit after the first.
C13_Witness ==
    \E j \in Jobs :
        /\ LogJob(j) /\ config.Jobs[j].Count = 0
        /\ src[j].pc = "closed" /\ ~JobCtxDone(j)
        /\ Len(emitLog[j]) = 2 /\ src[j].sentAt = 1

\* Job j has dispatched nothing and produced no JobResult.
NothingDispatched(j) ==
    /\ emitLog[j] = <<>> /\ held[j] = None /\ workers[j] = EmptyBag
    /\ src[j].pc = "none" /\ Processed(j) = 0

\* Nothing of job j is dispatched before Run's select took the timer, and
\* that only with the start duration elapsed since Run began.
NoneBeforeStart ==
    \A j \in Jobs :
        /\ run[j] \in {"none", "init", "waitStart"} => NothingDispatched(j)
        /\ ~NothingDispatched(j) => now >= jobT0[j] + config.Jobs[j].Start
        /\ (run[j] = "done" /\ src[j].pc = "none") => NothingDispatched(j)

Owned(job) ==
    [results |-> IF job.QueryResults THEN 1 ELSE 0,
     log |-> IF job.QueryLog.present THEN 1 ELSE 0]

\* C15: on every path through Job.Run that returns, each resource the job
\* owns (query-results sink, query log) has been closed exactly once when
\* Run has returned and not at all before; and once one is closed no worker
\* of the job is left and the job's source is not running.
C15_ResourceRelease ==
    \A j \in Jobs :
        /\ run[j] = "done" => released[j] = Owned(config.Jobs[j])
        /\ run[j] # "done" => released[j] = [results |-> 0, log |-> 0]
        /\ released[j].results > 0 => workers[j] = EmptyBag /\ held[j] = None
        /\ released[j].log > 0 => src[j].pc \in {"none", "closed"}

\* C15 witness: a job with a results sink has run its source to its end, its
\* two invocations executed, and its sink has been closed.
C15_Witness ==
    \E j \in Jobs :
        /\ config.Jobs[j].QueryResults /\ run[j] = "done"
        /\ Len(emitLog[j]) = 2 /\ ~JobCtxDone(j)
        /\ released[j].results = 1

\* A log job cancelled in mid-replay has returned, its log closed.
C15_CancelledInRun ==
    \E j \in Jobs :
        /\ LogJob(j) /\ run[j] = "done" /\ JobCtxDone(j)
        /\ Len(emitLog[j]) = 1 /\ Len(emitLog[j]) < LogLimit(j)
        /\ released[j].log = 1

\* A job cancelled before its start has returned, its resources closed.
C15_CancelledBeforeStart ==
    \E j \in Jobs :
        /\ run[j] = "done" /\ src[j].pc = "none"
        /\ released[j] = Owned(config.Jobs[j])
        /\ released[j].results + released[j].log > 0

\* ------------------------------------------------------------ claims on the statistics
\* What one processed result jr adds to a jobStats: one sample, its elapsed
\* time, to the aborts aggregator when it has errors and to the transactions
\* aggregator otherwise, the other aggregator as it was; its rows in the
\* error-free case only; its query count always.
OneSample(was, is, jr) ==
    /\ is.Queries = was.Queries + jr.Queries
    /\ IF TotalErrors(jr.Errors) > 0
       THEN /\ is.Errors = ssAdd(was.Errors, jr.Elapsed)
            /\ is.Errors.count = was.Errors.count + 1
            /\ is.Transactions = was.Transactions
            /\ is.RowsAffected = was.RowsAffected
       ELSE /\ is.Transactions = ssAdd(was.Transactions, jr.Elapsed)
            /\ is.Transactions.count = was.Transactions.count + 1
            /\ is.Errors = was.Errors
            /\ is.RowsAffected = was.RowsAffected + jr.RowsAffected

\* For every job the samples of the two all-time aggregators are as many as
\* the results processed for it, the histograms agree with them, and Queries
\* is the sum of the results' query counts.
SamplesAreResults ==
    \A name \in Jobs :
        LET a == AllOf(allTestStats, name) IN
        /\ a.jobStats.Transactions.count + a.jobStats.Errors.count = seen[name].n
        /\ histTotal(a.Transactions) = a.jobStats.Transactions.count
        /\ histTotal(a.Errors) = a.jobStats.Errors.count
        /\ a.jobStats.Queries = seen[name].queries

\* C16: each JobResult the processor processes adds one sample to exactly
\* one of its job's two aggregators (aborts when TotalErrors() > 0,
\* transactions otherwise), its rows only in the error-free case and its
\* query count always, in the all-time and in the recent stats, and leaves
\* the other jobs' stats alone; and at all times Transactions.Count +
\* Errors.Count is the number of results processed for the job and Queries
\* the sum of their query counts.
C16_ProcessorPartition ==
    /\ []SamplesAreResults
    /\ [][\A jr \in ProcInputs :
            (ProcFeed(jr) /\ ~fatal') =>
                /\ OneSample(AllOf(allTestStats, jr.Name).jobStats,
                             AllOf(allTestStats', jr.Name).jobStats, jr)
                /\ OneSample(RecentOf(recentTestStats, jr.Name),
                             RecentOf(recentTestStats', jr.Name), jr)
                /\ \A name \in Jobs \ {jr.Name} :
                      /\ AllOf(allTestStats', name) = AllOf(allTestStats, name)
                      /\ RecentOf(recentTestStats', name) =
                            RecentOf(recentTestStats, name)]_vars

\* C16 witness: a job has had a failed and an error-free result processed,
\* the error-free one with rows, three queries between them.
C16_Witness ==
    \E name \in Jobs :
        /\ name \in DOMAIN allTestStats /\ seen[name].n = 2
        /\ allTestStats[name].jobStats.Transactions.count = 1
        /\ allTestStats[name].jobStats.Errors.count = 1
        /\ allTestStats[name].jobStats.RowsAffected > 0
        /\ allTestStats[name].jobStats.Queries = 3

\* For every job the all-time samples are the samples of the windows
\* reported so far and of the current window, transactions and aborts each.
WindowsAddUp ==
    \A name \in Jobs :
        LET a == AllOf(allTestStats, name).jobStats
            r == RecentOf(recentTestStats, name)
        IN /\ a.Transactions.count = seen[name].tx + r.Transactions.count
           /\ a.Errors.count = seen[name].ab + r.Errors.count

\* C17: a reporting tick empties the recent-window stats of every job, the
\* windows it reports being those it found, and leaves the all-time stats
\* unchanged; and after any interleaving of results and ticks the all-time
\* sample count of every job is the sum of the counts of the windows
\* reported so far plus the count of the current window.
C17_RecentWindow ==
    /\ []WindowsAddUp
    /\ [][ProcTickAlone =>
            /\ recentTestStats' = EmptyMap
            /\ allTestStats' = allTestStats
            /\ \A name \in Jobs :
                  seen'[name].tx + seen'[name].ab =
                     seen[name].tx + seen[name].ab
                       + RecentOf(recentTestStats, name).Transactions.count
                       + RecentOf(recentTestStats, name).Errors.count]_vars

\* C17 witness: a window of one result has been reported and a second
\* window holds one result of the same job.
C17_Witness ==
    \E name \in DOMAIN recentTestStats :
        /\ seen[name].tx + seen[name].ab = 1
        /\ recentTestStats[name].Transactions.count
              + recentTestStats[name].Errors.count = 1
        /\ seen[name].n = 2

\* ------------------------------------------------------------ claims on ErrorCounts
\* C18: for every ErrorCounts ec and accepted set A, TotalErrors() is
\* TotalAccepted(A) plus the TotalErrors() of UnhandledErrors(A);
\* UnhandledErrors(A) has exactly the codes of ec that are not in A, each
\* with the counts it has in ec; and ec is afterwards what it was.
C18_ErrorPartition ==
    errs.pc = "split" =>
        LET ec == errs.before
            r == errs.after
        IN /\ r.totalErrors = r.totalAccepted + TotalErrors(r.unhandled)
           /\ DOMAIN r.unhandled = {c \in DOMAIN ec : c \notin errs.errors}
           /\ \A c \in DOMAIN r.unhandled : r.unhandled[c] = ec[c]
           /\ r.ec = ec

\* C18 witness: an ErrorCounts with an accepted and two unaccepted errors has
\* been split by a set that has an accepted code no error has.
C18_Witness ==
    /\ errs.pc = "split"
    /\ errs.after.totalErrors = 3 /\ errs.after.totalAccepted = 1
    /\ DOMAIN errs.before = {"E1", "E2", "E3"}
    /\ errs.errors = {"E1", "E4"}

\* ------------------------------------------------------------ claims on decodeJobSection
Decoded == parsed.pc = "decoded"
Accepted == Decoded /\ parsed.result.err = ""

\* The pacing modes in force for a job.
PacingModes(job) ==
    {m \in {"queue-depth", "rate", "query-log-file"} :
        \/ m = "queue-depth" /\ job.QueueDepth > 0
        \/ m = "rate" /\ FltPos(job.Rate)
        \/ m = "query-log-file" /\ job.QueryLog.present}

\* The pacing options a section gives, whatever their values.
PacingGiven(section) ==
    {m \in {"queue-depth", "rate", "query-log-file"} :
        \/ m = "queue-depth" /\ (section.depth.given \/ section.concurrency.given)
        \/ m = "rate" /\ section.rate.given
        \/ m = "query-log-file" /\ section.log.given}

\* After decodeJobSection succeeds exactly one pacing mode is in force.
ExactlyOneMode == Accepted => Cardinality(PacingModes(parsed.result.job)) = 1

\* A section that gives no pacing option and is accepted has QueueDepth 1.
DefaultQueueDepth ==
    (Accepted /\ PacingGiven(parsed.section) = {}) =>
        parsed.result.job.QueueDepth = 1

BatchRejectedAtRateZero ==
    (/\ Decoded
     /\ parsed.options.BatchSize > 0
     /\ FltZero(parsed.options.Rate)) => parsed.result.err # ""

\* An accepted job with a rate above 0 and no batch size given has
\* BatchSize 1.
BatchDefault ==
    (Accepted /\ FltPos(parsed.result.job.Rate) /\ ~parsed.section.batch.given)
        => parsed.result.job.BatchSize = 1

\* C20: decodeJobSection rejects a job that sets batch-size > 0 while rate
\* is 0, sets BatchSize to 1 when rate > 0 and no batch size was given, and
\* for every accepted job BatchSize > 0 exactly when Rate > 0.
C20_BatchSize ==
    /\ BatchRejectedAtRateZero
    /\ BatchDefault
    /\ Accepted =>
          (parsed.result.job.BatchSize > 0 <=> FltPos(parsed.result.job.Rate))

\* ------------------------------------------------------------ claims on parseIniConfig
IniParsed == parsed.pc = "parsed"

\* The duration the global section gives, and whether it is one.
IniDuration ==
    IF parsed.file.duration.given THEN ParseDuration(parsed.file.duration.v)
    ELSE [err |-> FALSE, v |-> 0]

\* Every start and stop of the file is a duration.
IniJobsParse ==
    \A name \in DOMAIN parsed.file.jobs :
        LET sec == parsed.file.jobs[name] IN
        /\ sec.start.given => ~ParseDuration(sec.start.v).err
        /\ sec.stop.given => ~ParseDuration(sec.stop.v).err

\* Some job's start or stop is above d.
IniExceeds(d) ==
    \E name \in DOMAIN parsed.file.jobs :
        LET sec == parsed.file.jobs[name] IN
        \/ sec.start.given /\ ParseDuration(sec.start.v).v > d
        \/ sec.stop.given /\ ParseDuration(sec.stop.v).v > d

\* A file that gives no duration and whose starts and stops are durations
\* is accepted.
NoDurationAccepted ==
    (IniParsed /\ ~parsed.file.duration.given /\ IniJobsParse) =>
        parsed.result.err = ""

\* C21: parseIniConfig rejects a configuration whose global duration is
\* above 0 and in which some job's start or some job's stop exceeds it; a
\* configuration whose duration is not given, or not above 0, is accepted
\* whatever the jobs' start and stop are.
C21_StartStopWithinDuration ==
    /\ (IniParsed /\ ~IniDuration.err /\ IniDuration.v > 0 /\ IniExceeds(IniDuration.v))
          => parsed.result.err # ""
    /\ NoDurationAccepted
    /\ (IniParsed /\ ~IniDuration.err /\ IniDuration.v <= 0 /\ IniJobsParse)
          => parsed.result.err = ""
    /\ (IniParsed /\ parsed.result.err = "") =>
          \A name \in DOMAIN parsed.result.config.Jobs :
              LET job == parsed.result.config.Jobs[name]
                  d == parsed.result.config.Duration
              IN d > 0 => (job.Start <= d /\ job.Stop <= d)

\* C21 witness: a file with duration 1s is rejected for the stop 2s of its
\* second job, the first job within the duration.
C21_Witness ==
    /\ IniParsed /\ parsed.file.duration = Opt(<<"1", "s">>)
    /\ parsed.file.jobs["j1"].start = Opt(<<"1", "s">>)
    /\ parsed.file.jobs["j1"].stop = NoOpt
    /\ parsed.file.jobs["j2"].start = NoOpt
    /\ parsed.file.jobs["j2"].stop = Opt(<<"2", "s">>)
    /\ parsed.result.err = "stops after test finishes"

\* C21 as stated: whenever the global section gives a duration and some
\* job's start or stop exceeds it the configuration is rejected, and without
\* a duration it is accepted.
C21_RejectsBeyondGivenDuration ==
    /\ (IniParsed /\ parsed.file.duration.given /\ ~IniDuration.err
           /\ IniExceeds(IniDuration.v)) => parsed.result.err # ""
    /\ NoDurationAccepted

\* ------------------------------------------------------------ claims on runTest
\* A setup query has returned an error.
SetupFailed == fatal /\ orch.pc = "setup"

\* Once a setup query has failed, the queries run are the setup queries up
\* to the failing one, and no job goroutine exists.
StoppedAtSetup ==
    SetupFailed =>
        /\ orch.i \in 1..Len(config.Setup)
        /\ orchLog = SubSeq(config.Setup, 1, orch.i)
        /\ coord = "none" /\ closeCount = 0
        /\ \A j \in Jobs :
             /\ run[j] = "none" /\ src[j].pc = "none"
             /\ emitLog[j] = <<>> /\ workers[j] = EmptyBag
        /\ allTestStats = EmptyMap

\* C22: when a setup query returns an error the process ends at that
\* query: the remaining setup queries, every job and teardown are not
\* executed, then or later (no step is taken once log.Fatalf has run).
C22_SetupFatal ==
    /\ []StoppedAtSetup
    /\ [][~fatal]_vars

\* C22 witness: the first of two setup queries has failed.
C22_Witness ==
    /\ SetupFailed /\ orch.i = 1 /\ Len(config.Setup) = 2
    /\ orchLog = <<config.Setup[1]>>

\* ------------------------------------------------------------ claims on cancelOnInterrupt
\* A SIGINT is in the handler's channel or hands.
SigintTaken == sig.buf > 0 \/ sig.pc \in {"stop", "cancel"}

\* The handler calls cancel at most once, and only for a SIGINT; once it
\* has called signal.Stop the channel is no longer registered; a SIGINT left
\* in the channel is one that arrived before signal.Stop took effect.
CancelsOnce ==
    /\ sig.cancels <= 1 /\ sig.cancels <= sig.sent
    /\ sig.cancels = 1 => ctxCancelled
    /\ sig.pc \in {"cancel", "close", "done"} => ~sigRegistered
    /\ sig.pc \in {"close", "done"} => sig.cancels = 1

\* C23: the first SIGINT the handler takes leads to the cancellation of the
\* run context (unless the process ends first); the handler calls cancel at
\* most once; once it has taken the first SIGINT and called signal.Stop it
\* is no longer registered, and no later SIGINT changes the context or makes
\* it call cancel again.
C23_InterruptOnce ==
    /\ []CancelsOnce
    /\ [][(Sigint /\ sig.pc \notin {"none", "wait"}) =>
            /\ ctxCancelled' = ctxCancelled
            /\ sig'.pc = sig.pc /\ sig'.cancels = sig.cancels]_vars
    /\ [][sig.cancels = 1 => sig'.cancels = 1]_vars
    /\ (SigintTaken /\ sig.cancels = 0) ~> (sig.cancels = 1 \/ ~Alive)

\* C23 witness: two SIGINTs were sent, the second while the handler had not
\* yet called signal.Stop; cancel was called once, the handler's goroutine
\* has ended and the second SIGINT lies in the channel.
C23_Witness ==
    /\ sig.sent = 2 /\ sig.cancels = 1 /\ sig.pc = "done" /\ sig.buf = 1
    /\ ctxCancelled /\ ~sigRegistered /\ ~fatal

\* ------------------------------------------------------------ claims on the contexts
\* The stop deadline job j derived in Run has expired.
StopExpired(j) ==
    /\ config.Jobs[j].Stop > 0 /\ run[j] \notin {"none", "init"}
    /\ now >= jobT0[j] + config.Jobs[j].Stop

\* With the run context done every job's context is done; with the run
\* context not done, a job's context is done only by its own deadline.
ContextTree ==
    /\ RunCtxDone => \A j \in Jobs : JobCtxDone(j)
    /\ ~RunCtxDone => \A j \in Jobs : JobCtxDone(j) <=> StopExpired(j)

\* C24: when the run context is cancelled (interrupt or global duration)
\* the context of every job is cancelled, a job with a stop deadline of its
\* own included; the expiry of one job's stop deadline cancels that job
\* only; and a job takes a ctx.Done() case (in Run, in its source) only
\* with the run context done or its own deadline expired.
C24_CancelPropagation ==
    /\ []ContextTree
    /\ [][\A j \in Jobs :
            ((run[j] = "waitStart" /\ run'[j] = "done")
             \/ (src[j].pc = "select" /\ src'[j].pc = "closed"))
            => (RunCtxDone \/ StopExpired(j))]_vars

\* C24 witness: j1 has returned on its stop deadline with the run context
\* not done, and j2, whose context is not done, has dispatched since.
C24_Witness ==
    /\ ~RunCtxDone /\ StopExpired("j1") /\ run["j1"] = "done"
    /\ ~JobCtxDone("j2") /\ Len(emitLog["j2"]) = 1

\* The run context has expired ahead of the stop deadline of j1, and j1 has
\* returned.
C24_ParentFirst ==
    /\ RunCtxDone /\ ~ctxCancelled /\ ~StopExpired("j1")
    /\ config.Jobs["j1"].Stop > 0 /\ run["j1"] = "done"

\* C25: job independence.  With only j2's own steps scheduled fairly (j1's
\* workers may stay in their database calls for ever, its runner waiting for
\* a permit), j2, once its run loop has started, dispatches its invocation
\* and the processor receives its result, unless the run is cancelled or the
\* process ends first.
AllBlocked(j) ==
    /\ Bounded(j) /\ queueSem[j] = 0
    /\ CountPhase(j, "invoke") = config.Jobs[j].QueueDepth
    /\ CountPhase(j, "send") = 0

C25_JobIndependence ==
    (run["j2"] = "loop" /\ Processed("j2") = 0)
        ~> (Processed("j2") > 0 \/ RunCtxDone \/ fatal)

\* j1 has all its workers in database calls, its runner waiting for a permit
\* and no result yet, and j2's result has been processed.
C25_Witness ==
    /\ AllBlocked("j1") /\ run["j1"] = "acquire" /\ Processed("j1") = 0
    /\ ~RunCtxDone /\ ~fatal
    /\ Processed("j2") = 1

\* C26: a log line is split at its first comma only: what stands before it
\* is the integer timestamp, everything after it (further commas included)
\* is the query text of the invocation; at a line with no comma or with a
\* timestamp that is no integer the source sends nothing, does not move on
\* to the next line, and the process ends.
HasComma(line) == \E i \in 1..Len(line) : line[i] = ","

\* before \o "," \o after = line, with no comma in before.
BeforeComma(line) ==
    CHOOSE b \in {SubSeq(line, 1, i) : i \in 0..Len(line)} :
        /\ Len(b) < Len(line) /\ line[Len(b) + 1] = ","
        /\ \A k \in 1..Len(b) : b[k] # ","

AfterComma(line) == SubSeq(line, Len(BeforeComma(line)) + 2, Len(line))

IsInteger(text) ==
    LET body == IF text # <<>> /\ text[1] \in {"+", "-"} THEN Tail(text) ELSE text
    IN body # <<>> /\ \A i \in 1..Len(body) : body[i] \in DOMAIN Digit

WellFormed(line) == HasComma(line) /\ IsInteger(BeforeComma(line))

LogOf(j) == config.Jobs[j].QueryLog.lines

\* The log source of j stands before a line it is going to read.
AtLine(j) ==
    /\ SourceMode(config.Jobs[j]) = "log" /\ src[j].pc = "next"
    /\ src[j].n < Len(LogOf(j)) /\ CountNotReached(config.Jobs[j], src[j].n)

AtMalformed(j) == AtLine(j) /\ ~WellFormed(LogOf(j)[src[j].n + 1])

LogReplayed ==
    \A j \in Jobs : SourceMode(config.Jobs[j]) = "log" =>
        /\ \A k \in 1..src[j].n : WellFormed(LogOf(j)[k])
        /\ Len(emitLog[j]) <= Len(LogOf(j))
        /\ \A k \in 1..Len(emitLog[j]) :
              emitLog[j][k].queries = <<[query |-> AfterComma(LogOf(j)[k]), args |-> <<>>]>>

LogLineRead ==
    \A j \in Jobs : AtLine(j) =>
        LET line == LogOf(j)[src[j].n + 1] IN
        IF WellFormed(line)
        THEN /\ src'[j] # src[j] =>
                  /\ src'[j].pc = "select"
                  /\ src'[j].lastTime = ParseInt(BeforeComma(line)).v
                  /\ src'[j].ji.queries = <<[query |-> AfterComma(line), args |-> <<>>]>>
             /\ (fatal' /\ ~fatal) => workers[j] # EmptyBag
        ELSE src'[j] = src[j]

C26_LogRecordParsing ==
    /\ []LogReplayed
    /\ [][LogLineRead]_vars
    /\ \A j \in JobNames : (j \in Jobs /\ AtMalformed(j)) ~> (fatal \/ orch.pc = "exit")

\* The invocation of a line with a second comma has been sent, its text with
\* the comma in it.
C26_Witness ==
    /\ "j2" \in Jobs /\ LogOf("j2") = LogLines /\ Len(emitLog["j2"]) = 2
    /\ emitLog["j2"][2].queries = <<[query |-> <<"q", ",", "b">>, args |-> <<>>]>>

\* The process has ended at a second line that has no comma, after the first
\* line's invocation ran without an error.
C26_MalformedEnds ==
    /\ "j2" \in Jobs /\ fatal /\ AtMalformed("j2") /\ src["j2"].n = 1
    /\ workers["j2"] = EmptyBag /\ Processed("j2") = 1

\* C27 as claimed: the permit acquisition of a bounded job is
\* cancellation-aware: a runner that waits for a permit (it holds an
\* invocation, no permit is left) with the job's context done has a step of
\* its own to take, it does not depend on a worker putting a permit back.
WaitsForPermit(j) ==
    Alive /\ Bounded(j) /\ run[j] = "acquire" /\ queueSem[j] = 0

RunnerStep(j) == RunnerSpawn(j) \/ RunnerDrained(j) \/ RunnerFinish(j)

C27_AcquireCancellable ==
    \A j \in Jobs :
        (WaitsForPermit(j) /\ JobCtxDone(j)) => ENABLED <<RunnerStep(j)>>_vars

\* C28 as claimed: in each source mode the send of an invocation is
\* cancellation-aware: a source that stands at its send while the runner is
\* not at its receive, with the job's context done, can take the ctx.Done()
\* branch and close its channel without the runner receiving again.
BlockedSending(j) ==
    /\ Alive /\ run[j] # "loop"
    /\ \/ src[j].pc = "send"
       \/ src[j].pc = "select" /\ SourceMode(config.Jobs[j]) = "count"

C28_SendCancellable ==
    \A j \in Jobs :
        (BlockedSending(j) /\ JobCtxDone(j)) => ENABLED <<SourceCancel(j)>>_vars

\* C29: fan-in.  Every JobResult a forwarder has received from its input is
\* in the forwarder's hand, in outchan's buffer or with the reader, exactly
\* once; outchan is closed at most once, and only with every input closed
\* and every forwarder finished (nothing left in a hand, no send to come),
\* so that the reader that sees the close has every JobResult sent on any
\* input exactly once; the buffer holds up to 2 x (number of inputs)
\* JobResults and a send finds room whenever it holds fewer.
Taken(i) == SubSeq(merge.all[i], 1, Len(merge.all[i]) - Len(merge.todo[i]))

InHand(i) == IF merge.fwd[i].pc = "send" THEN <<merge.fwd[i].jr>> ELSE <<>>

\* How often x occurs in the sequence q.
Occurs(x, q) == Cardinality({k \in 1..Len(q) : q[k] = x})

Downstream(x) ==
    Occurs(x, merge.got) + Occurs(x, merge.out)
        + SumOver([i \in 1..merge.n |-> Occurs(x, InHand(i))], 1..merge.n)

AllItems == UNION {{merge.all[i][k] : k \in 1..Len(merge.all[i])} : i \in 1..merge.n}

TakenItems == UNION {{Taken(i)[k] : k \in 1..Len(Taken(i))} : i \in 1..merge.n}

ForwardedOnce ==
    \A x \in AllItems : Downstream(x) = IF x \in TakenItems THEN 1 ELSE 0

ClosedAfterAll ==
    /\ merge.closes <= 1
    /\ merge.closes = 1 =>
          \A i \in 1..merge.n :
              /\ merge.inClosed[i] /\ merge.todo[i] = <<>>
              /\ merge.fwd[i].pc = "done"
    /\ merge.sawClosed => \A x \in AllItems : Occurs(x, merge.got) = 1

TwiceTheInputs ==
    /\ Len(merge.out) <= 2 * merge.n
    /\ \A i \in 1..merge.n :
          (merge.fwd[i].pc = "send" /\ Len(merge.out) < 2 * merge.n)
              => ENABLED <<ForwarderSend(i)>>_vars

C29_FanIn ==
    merge.pc = "run" => ForwardedOnce /\ ClosedAfterAll /\ TwiceTheInputs

\* Two inputs with three JobResults each: the reader has seen the close with
\* all six.
C29_Witness ==
    /\ merge.pc = "run" /\ merge.n = 2 /\ merge.sawClosed
    /\ Len(merge.got) = 6

\* The buffer of two inputs holds four JobResults, nothing is read yet and
\* both forwarders wait at their send with a fifth and a sixth.
C29_BufferFull ==
    /\ merge.pc = "run" /\ merge.n = 2 /\ Len(merge.out) = 4 /\ merge.got = <<>>
    /\ \A i \in 1..2 : merge.fwd[i].pc = "send"

\* C30 as claimed: the TotalErrors() of a JobResult is 0 or its Queries
\* field (the invocation had no error, or one error is counted for each query
\* attempted).
C30_AllOrNone ==
    InvReturned =>
        TotalErrors(inv.result.Errors) \in {0, inv.result.Queries}

\* C30: the counts of an ErrorCounts add up, over all codes and queries, to
\* the number of queries that failed: one per failed query, none for a query
\* that succeeded.  The TotalErrors() of a JobResult lies between 0 and its
\* Queries field, is 0 exactly when no query failed and is Queries exactly
\* when every query failed.
C30_OnePerFailedQuery ==
    (inv.pc \in {"loop", "returned"} /\ ~fatal) =>
        LET ec == inv.acc.errorCounts IN
        /\ TotalErrors(ec) = Cardinality(InvFailed)
        /\ TotalErrors(ec) =
              SumOver([cq \in {"E1", "E2", "X"} \X {Q1, Q2} |-> CountOf(ec, cq[1], cq[2])],
                      {"E1", "E2", "X"} \X {Q1, Q2})
        /\ InvReturned =>
              /\ inv.result.Errors = ec
              /\ TotalErrors(inv.result.Errors) <= inv.result.Queries
              /\ TotalErrors(inv.result.Errors) = 0 <=> InvFailed = {}
              /\ TotalErrors(inv.result.Errors) = inv.result.Queries
                    <=> InvFailed = 1..Len(inv.ji.queries)

\* An invocation of two queries whose second failed has returned: one error
\* in a JobResult of two queries.
C30_Witness ==
    /\ InvReturned /\ inv.result.Queries = 2 /\ InvFailed = {2}
    /\ TotalErrors(inv.result.Errors) = 1

\* C31 as claimed: a job's stats hold the minimum of the results' start
\* values in Start and the maximum of start + elapsed in Stop: the first
\* result processed sets both, every later one lowers Start to its start when
\* that is smaller and raises Stop to its end when that is larger, for every
\* start >= 0.
Samples(js) == js.Transactions.count + js.Errors.count

Max2(a, b) == IF a > b THEN a ELSE b

WindowAfter(was, is, jr) ==
    IF Samples(was) = 0
    THEN is.Start = jr.Start /\ is.Stop = jr.Start + jr.Elapsed
    ELSE /\ is.Start = Min2(was.Start, jr.Start)
         /\ is.Stop = Max2(was.Stop, jr.Start + jr.Elapsed)

C31_StatsWindow ==
    [][\A jr \in ProcInputs :
          (ProcFeed(jr) /\ ~fatal') =>
              /\ WindowAfter(AllOf(allTestStats, jr.Name).jobStats,
                             AllOf(allTestStats', jr.Name).jobStats, jr)
              /\ WindowAfter(RecentOf(recentTestStats, jr.Name),
                             RecentOf(recentTestStats', jr.Name), jr)]_vars

\* C32: after n >= 1 calls of Add with x1..xn, Count() is n, Mean() is
\* (x1 + ... + xn) / n, sumSquareDeviation is the sum of the squares of
\* (xi - mean), hence not negative, and SampleVariance() is
\* sumSquareDeviation / (n - 1) for n > 1 and 0 for n <= 1.  (The float64
\* fields are exact rationals here.)
Added == SubSeq(stats.xs, 1, stats.i)

SumSeq(q) == SumOver(q, DOMAIN q)

\* sum of (xi - S/n)^2 = sum of (n*xi - S)^2 / n^2
SquaredDeviations(q) ==
    LET n == Len(q)
        S == SumSeq(q)
    IN Rat(SumSeq([k \in 1..n |-> (n * q[k] - S) * (n * q[k] - S)]), n * n)

C32_FractionalMean ==
    /\ stats.pc = "run" /\ Added = <<0, 0, 1>>
    /\ stats.ss.mean = <<1, 3>> /\ stats.ss.sumSquareDeviation = <<2, 3>>

\* C33: in every job's all-time stats the bucket counts of the transactions
\* histogram add up to Transactions.Count() and those of the aborts histogram
\* to Errors.Count(), after any sequence of processed results.
BucketSum(h) == SumOver([b \in BagToSet(h) |-> CopiesIn(b, h)], BagToSet(h))

C33_HistogramCount ==
    \A name \in DOMAIN allTestStats :
        /\ BucketSum(allTestStats[name].Transactions)
              = allTestStats[name].jobStats.Transactions.count
        /\ BucketSum(allTestStats[name].Errors)
              = allTestStats[name].jobStats.Errors.count

\* Two failed results of one job with different latencies have been
\* processed: two buckets of its aborts histogram hold one each.
C33_Witness ==
    \E name \in DOMAIN allTestStats :
        /\ Cardinality(BagToSet(allTestStats[name].Errors)) = 2
        /\ allTestStats[name].jobStats.Errors.count = 2
        /\ allTestStats[name].jobStats.Transactions.count = 0

\* C34: in a bounded job, from the moment runLoop has filled queueSem, the
\* permits in queueSem and the permits taken and not yet put back (one per
\* worker still in its Invoke) are queueDepth together; so a worker that
\* puts its permit back finds room in queueSem, all permits are back when
\* wg.Wait() returns and queueSem is closed, and no worker is left to put a
\* permit back after that.
InRunLoop(j) == run[j] \in {"loop", "acquire", "wait"}

PermitsConserved ==
    \A j \in Jobs :
        (Bounded(j) /\ InRunLoop(j)) =>
            /\ queueSem[j] + CountPhase(j, "invoke") = config.Jobs[j].QueueDepth
            /\ queueSem[j] >= 0

ReleaseFindsRoom ==
    \A j \in Jobs :
        /\ (Bounded(j) /\ CountPhase(j, "invoke")' < CountPhase(j, "invoke")) =>
              /\ queueSem[j] < config.Jobs[j].QueueDepth
              /\ queueSem'[j] = queueSem[j] + 1
              /\ InRunLoop(j)
        /\ (Bounded(j) /\ run[j] = "wait" /\ run'[j] = "done") =>
              /\ queueSem[j] = config.Jobs[j].QueueDepth
              /\ workers[j] = EmptyBag

C34_PermitConservation ==
    /\ []PermitsConserved
    /\ [][ReleaseFindsRoom]_vars
    /\ [](\A j \in Jobs : run[j] = "done" => CountPhase(j, "invoke") = 0)

\* A job of queue depth 2: one permit in queueSem, one worker in its Invoke,
\* one worker that has put its permit back and not yet sent its result.
C34_Witness ==
    \E j \in Jobs :
        /\ config.Jobs[j].QueueDepth = 2 /\ InRunLoop(j)
        /\ queueSem[j] = 1 /\ CountPhase(j, "invoke") = 1 /\ CountPhase(j, "send") = 1

\* runLoop of a job of queue depth 2 has returned after three invocations,
\* both permits back.
C34_AllBack ==
    \E j \in Jobs :
        /\ config.Jobs[j].QueueDepth = 2 /\ run[j] = "done"
        /\ Len(emitLog[j]) = 3 /\ queueSem[j] = 2

\* C35: deadlock freedom.  While the process lives and the results stream
\* is open, one of the sources, runners, workers, the coordinator and the
\* processor can take a step, or a goroutine waits for a timer that is still
\* to fire; the steps of the workers include the return of their database
\* calls.  (A source of unlimited count that has handed out MaxEmit
\* invocations is stopped by the bound, not by the program.)
\* The goroutines' steps other than a worker's; StepWithoutDatabase leaves
\* the return of a database call (WorkerInvoke) out as well.
OtherStep ==
    \/ CoordSpawn \/ CoordClose \/ ProcClosed
    \/ \E j \in Jobs :
         \/ JobRun(j) \/ RunCancelled(j) \/ RunLoopStart(j)
         \/ SourceNext(j) \/ SourceCancel(j) \/ SourceSend(j)
         \/ TickerFire(j) \/ TickTake(j) \/ LogTimerFire(j) \/ BatchSend(j)
         \/ RunnerSpawn(j) \/ RunnerDrained(j) \/ RunnerFinish(j)

\* SendReady(j) is the guard of WorkerSend(j), whose other conjuncts assign.
StepWithoutDatabase ==
    (\E j \in Jobs : SendReady(j)) \/ ENABLED OtherStep

GoroutineStep ==
    StepWithoutDatabase \/ \E j \in Jobs : ENABLED WorkerInvoke(j)

TimerPending ==
    \E j \in Jobs :
        \/ run[j] = "waitStart" /\ ~StartElapsed(j)
        \/ /\ SourceMode(config.Jobs[j]) = "log"
           /\ src[j].pc = "select" /\ now < src[j].timerAt

EmitCut ==
    \E j \in Jobs :
        /\ src[j].pc = "select"
        /\ ~MayEmit(j, IF SourceMode(config.Jobs[j]) = "tick"
                       THEN config.Jobs[j].BatchSize ELSE 1)

StreamOpen == Alive /\ orch.pc = "run" /\ closeCount = 0

C35_DeadlockFree ==
    StreamOpen => (GoroutineStep \/ TimerPending \/ EmitCut)

\* The stream is open, no timer is awaited, and the one step left is the
\* return of a database call: the runner waits for a permit with the
\* context done.
C35_Witness ==
    /\ StreamOpen /\ ~TimerPending /\ ~EmitCut
    /\ ~StepWithoutDatabase
    /\ \E j \in Jobs : WaitsForPermit(j) /\ JobCtxDone(j)

\* C36: whole batches.  In ticked mode the invocations sent so far are the
\* whole batches of the ticks taken plus the bi sends of the batch under
\* way, and never more than count * batchSize when count > 0; a batch under
\* way goes on with a send, with the context done or not (the send or the
\* runner's spawn before it is enabled, and the source's next step is a
\* send); so whenever the source is not inside a batch -- its channel
\* closed included -- the number sent is a multiple of batchSize.
Ticked(j) == SourceMode(config.Jobs[j]) = "tick"

MidBatch(j) == Ticked(j) /\ src[j].pc = "send"

BatchesSoFar ==
    \A j \in Jobs :
        Ticked(j) =>
            LET B == config.Jobs[j].BatchSize
                C == config.Jobs[j].Count
                n == Len(emitLog[j])
            IN /\ C > 0 => n <= C * B
               /\ src[j].bi < B
               /\ n % B = (IF MidBatch(j) THEN src[j].bi ELSE 0)
               /\ (MidBatch(j) /\ Alive) =>
                     (ENABLED BatchSend(j) \/ ENABLED RunnerSpawn(j))

BatchGoesOn ==
    \A j \in Jobs :
        (MidBatch(j) /\ (src'[j].pc # src[j].pc \/ src'[j].bi # src[j].bi)) =>
            /\ Len(emitLog'[j]) = Len(emitLog[j]) + 1
            /\ emitLog'[j][Len(emitLog'[j])] = src[j].ji

C36_CancelledAfterBatch ==
    \E j \in Jobs :
        /\ Ticked(j) /\ src[j].pc = "closed" /\ JobCtxDone(j)
        /\ config.Jobs[j].BatchSize = 2 /\ Len(emitLog[j]) = 2

FourRows == << <<"a">>, <<"b">>, <<"c">>, <<"d">> >>

ArgsFiles == {ArgsFile(SubSeq(FourRows, 1, n)) : n \in 0..Len(FourRows)}

ArgsJobs ==
    {("j1" :> Job("j1", <<Q1, Q2>>, 1, 0, 0, 0, NoLogFile, f, 0, 0)) : f \in ArgsFiles}
        \cup {("j1" :> Job("j1", <<Q1, Q2>>, 1, 0, 1, 0, NoLogFile,
                           ArgsFile(FourRows), 0, 0)),
              ("j2" :> Job("j2", <<Q1, Q2>>, 0, 1, 0, 2, NoLogFile,
                           ArgsFile(SubSeq(FourRows, 1, 3)), 0, 0))}

ArgsConfigs ==
    {[Duration |-> d, Setup |-> <<"s1">>, Teardown |-> <<"t1">>,
      Jobs |-> js, AcceptedErrors |-> {"E1"}, IntermediateUpdates |-> FALSE] :
        d \in {0, 1}, js \in ArgsJobs}

InitArgs ==
    /\ config \in ArgsConfigs
    /\ InitRun /\ InitStats
    /\ inv = invIdle
    /\ fed = 0
    /\ parsed = parsedIdle
    /\ merge = mergeIdle
    /\ stats = statsIdle

NextArgs ==
    \/ SetupQuery \/ StartRun \/ Interrupt \/ Tick
    \/ ProcClosed \/ Report \/ TeardownQuery \/ Return
    \/ CoordSpawn \/ CoordClose
    \/ \E j \in Jobs :
         \/ JobRun(j) \/ RunCancelled(j) \/ RunLoopStart(j)
         \/ SourceNext(j) \/ SourceCancel(j) \/ SourceSend(j)
         \/ TickerFire(j) \/ TickTake(j) \/ BatchSend(j)
         \/ RunnerSpawn(j) \/ RunnerDrained(j) \/ RunnerFinish(j)
         \/ WorkerInvoke(j) \/ WorkerSend(j)

SpecArgs == InitArgs /\ [][NextArgs]_vars

\* C37: a job with k queries and a query-args file takes k rows per
\* invocation: the invocation built g-th (g from 0) has k queries, query i
\* with row g*k + i; nothing else is dispatched (no partial invocation);
\* the source has read at most the rows of whole groups plus those of the
\* group under way; and with count = 0 and n rows a source that closed
\* with its context not done has dispatched n div k invocations (each
\* batchSize times in ticked mode) and has read all n rows, the n mod k
\* left over read and dropped.
RowsOfJob(j) == config.Jobs[j].QueryArgs.rows

QueriesOfJob(j) == config.Jobs[j].Queries

GroupsOfRows ==
    \A j \in Jobs :
        LET k == Len(QueriesOfJob(j))
            n == Len(RowsOfJob(j))
            B == SendsPerWake(config.Jobs[j])
            sent == emitLog[j]
        IN /\ \A m \in 1..Len(sent) :
                /\ sent[m].id = (m - 1) \div B
                /\ Len(sent[m].queries) = k
                /\ \A i \in 1..k :
                     sent[m].queries[i] =
                         [query |-> QueriesOfJob(j)[i],
                          args |-> RowsOfJob(j)[sent[m].id * k + i]]
           /\ Len(sent) <= (n \div k) * B
           /\ src[j].pos <= n
           /\ (src[j].pc = "closed" /\ ~JobCtxDone(j) /\ config.Jobs[j].Count = 0) =>
                 /\ Len(sent) = (n \div k) * B
                 /\ src[j].pos = n

\* Each turn of the source's loop reads k rows, or the rows that are left
\* when fewer are: then the source closes its channel with nothing sent.
RowsPerTurn ==
    \A j \in Jobs :
        src'[j].pos # src[j].pos =>
            LET k == Len(QueriesOfJob(j))
                left == Len(RowsOfJob(j)) - src[j].pos
            IN IF left >= k
               THEN src'[j].pos = src[j].pos + k /\ src'[j].pc = "select"
               ELSE /\ src'[j].pos = Len(RowsOfJob(j))
                    /\ src'[j].pc = "closed"
                    /\ emitLog'[j] = emitLog[j]

C37_TickedGroups ==
    \E j \in Jobs :
        /\ SourceMode(config.Jobs[j]) = "tick"
        /\ src[j].pc = "closed" /\ ~JobCtxDone(j) /\ ~fatal
        /\ Len(emitLog[j]) = 2 /\ src[j].pos = 3

\* C38: accepted equals total.  While the process has not terminated,
\* every job's all-time stats and recent-window stats have AcceptedErrors =
\* TotalErrors; and the step in which a result terminates the process
\* updates neither aggregator (the entries of the result's job are as they
\* were, or new and zero).
AcceptedIsTotal ==
    ~fatal =>
        /\ \A n \in DOMAIN allTestStats :
             allTestStats[n].jobStats.AcceptedErrors =
                 allTestStats[n].jobStats.TotalErrors
        /\ \A n \in DOMAIN recentTestStats :
             recentTestStats[n].AcceptedErrors = recentTestStats[n].TotalErrors

FatalBeforeUpdate ==
    (~fatal /\ fatal') =>
        /\ \A n \in DOMAIN allTestStats' :
             allTestStats'[n] =
                 (IF n \in DOMAIN allTestStats THEN allTestStats[n] ELSE JobStatsZero)
        /\ \A n \in DOMAIN recentTestStats' :
             recentTestStats'[n] =
                 (IF n \in DOMAIN recentTestStats THEN recentTestStats[n]
                  ELSE jobStatsZero)

C38_AcceptedEqualsTotal == []AcceptedIsTotal /\ [][FatalBeforeUpdate]_vars

\* C38 witness: the process lives with accepted errors counted: three in
\* a job's all-time stats, of which two in its recent window.
C38_Witness ==
    /\ ~fatal
    /\ \E n \in DOMAIN allTestStats \cap DOMAIN recentTestStats :
         /\ allTestStats[n].jobStats.TotalErrors = 3
         /\ recentTestStats[n].TotalErrors = 2

\* A result with an unaccepted error has terminated the process, the
\* errors counted before it still in the stats.
C38_Terminated ==
    /\ fatal
    /\ \E n \in DOMAIN allTestStats : allTestStats[n].jobStats.TotalErrors > 0

\* C39: teardown is skipped on a fatal workload error.  A step that ends
\* the process while processResults runs (an unaccepted error in a result
\* received, an error Invoke has no code for) is the last step of the run:
\* nothing follows it, so no teardown query is run and the workers in
\* flight are left where they are; and a teardown query has run only if
\* processResults has returned, after close(results), with every job done
\* and no worker left.
TeardownRun ==
    \E i \in 1..Len(orchLog), k \in 1..Len(config.Teardown) :
        orchLog[i] = config.Teardown[k]

ProcessResultsReturned == orch.pc \in {"report", "teardown", "exit"}

TeardownOnlyAfterResults ==
    /\ TeardownRun =>
          /\ ProcessResultsReturned /\ closeCount > 0
          /\ \A j \in Jobs : run[j] = "done" /\ workers[j] = EmptyBag
    /\ (fatal /\ ~ProcessResultsReturned) => ~TeardownRun

FatalEndsTheRun ==
    /\ ~fatal
    /\ (fatal' /\ orch.pc = "run") =>
          /\ orch' = orch /\ orchLog' = orchLog /\ run' = run
          /\ \A j \in Jobs : workers'[j] \sqsubseteq workers[j]

C39_NoTeardownOnFatal == []TeardownOnlyAfterResults /\ [][FatalEndsTheRun]_vars

\* C39 witness: the process has ended inside processResults with a
\* worker still in its Invoke and the teardown queries not run.
C39_Witness ==
    /\ fatal /\ orch.pc = "run" /\ Len(config.Teardown) > 0 /\ ~TeardownRun
    /\ \E j \in Jobs : \E w \in BagToSet(workers[j]) : w.phase = "invoke"

\* The other runs: processResults has returned and the teardown has run.
C39_TeardownRan == TeardownRun /\ ~fatal /\ orch.pc = "exit"

\* ------------------------------------------------------------ stop before start
\* Runs of one job with start = 2 and stop = 1 (counted, count 0 or 1), with
\* no duration or a duration of 2; the clock runs to MaxLate, so that the
\* start delay can elapse.
StopJobs ==
    {("j1" :> Job("j1", <<Q1>>, 1, 0, c, 0, NoLogFile, NoArgsFile, 2, 1)) : c \in {0, 1}}

StopConfigs ==
    {[Duration |-> d, Setup |-> <<>>, Teardown |-> <<>>,
      Jobs |-> js, AcceptedErrors |-> {"E1"}, IntermediateUpdates |-> FALSE] :
        d \in {0, 2}, js \in StopJobs}

InitStop ==
    /\ config \in StopConfigs
    /\ InitRun /\ InitStats
    /\ inv = invIdle
    /\ fed = 0
    /\ parsed = parsedIdle
    /\ merge = mergeIdle
    /\ stats = statsIdle

\* Time passes while the workload runs, up to MaxLate: whether a goroutine
\* takes a step between two moments is the scheduler's choice.
TickLate ==
    /\ Alive /\ orch.pc = "run" /\ now < MaxLate
    /\ \A j \in Jobs : run[j] \notin {"none", "init"}
    /\ now' = now + 1
    /\ UNCHANGED <<config, orchVars, jobVars, statVars, fatal, sideVars>>

NextStop ==
    \/ StartRun \/ Interrupt \/ TickLate
    \/ ProcClosed \/ Report \/ Return
    \/ CoordSpawn \/ CoordClose
    \/ \E j \in Jobs :
         \/ JobRun(j) \/ RunCancelled(j) \/ RunLoopStart(j)
         \/ SourceNext(j) \/ SourceCancel(j) \/ SourceSend(j)
         \/ RunnerSpawn(j) \/ RunnerDrained(j) \/ RunnerFinish(j)
         \/ WorkerInvoke(j) \/ WorkerSend(j)

SpecStop == InitStop /\ [][NextStop]_vars

\* C40: a job with 0 < stop < start never dispatches an invocation: Run
\* does not enter runLoop, no invocation leaves its source, no worker is
\* spawned and no JobResult of the job is processed.
StopBeforeStart(j) ==
    0 < config.Jobs[j].Stop /\ config.Jobs[j].Stop < config.Jobs[j].Start

C40_StopBeforeStart ==
    \A j \in Jobs :
        StopBeforeStart(j) =>
            /\ run[j] \in {"none", "init", "waitStart", "done"}
            /\ src[j] = srcZero
            /\ emitLog[j] = <<>>
            /\ workers[j] = EmptyBag
            /\ Processed(j) = 0

\* What does hold: Run's select takes the timer's case only when the start
\* delay has elapsed, the stop deadline long past; a Run that takes its
\* step between the two moments returns by the case of ctx.Done().
C40_OnlyWhenStartElapsed ==
    [][\A j \in Jobs :
         (StopBeforeStart(j) /\ run[j] = "waitStart" /\ run'[j] # run[j]) =>
             /\ JobCtxDone(j)
             /\ run'[j] = "loop" => now >= jobT0[j] + config.Jobs[j].Start]_vars

\* The job has had a JobResult processed.
C40_Dispatched ==
    \E j \in Jobs : StopBeforeStart(j) /\ Processed(j) > 0

\* Run returned from its select, nothing dispatched.
C40_ReturnedAtStop ==
    \E j \in Jobs :
        /\ StopBeforeStart(j) /\ run[j] = "done" /\ emitLog[j] = <<>>
        /\ ~RunCtxDone

\* The parser's part: parseIniConfig has accepted a file whose job j1 has
\* stop = 1s and start = 2s.
C40_ParserAccepts ==
    /\ parsed.pc = "parsed" /\ parsed.result.err = ""
    /\ parsed.result.config.Jobs["j1"].Stop = 1
    /\ parsed.result.config.Jobs["j1"].Start = 2
====
